---------------------------- MODULE Spec2Model ----------------------------
(***************************************************************************)
(* IFA Portfolio Architect: the report assembly pipeline                   *)
(* (generateInvestmentProposal over generateWithRetry), the recommendation *)
(* fetch of the rebalance step and the two asset ledgers.                  *)
(*                                                                         *)
(* The repository holds two copies of the AI service module:               *)
(*   "services"  src/services/geminiService.ts (the one the components     *)
(*               import): research through the interactions agent with a   *)
(*               polling loop, 5 retries from 5000 ms;                     *)
(*   "part001"   src/unnamed/part_001: research through performDeepResearch*)
(*               (one generateContent call), 3 retries from 2000 ms.       *)
(* Which copy is built is fixed at construction (variable svc).            *)
(*                                                                         *)
(* JavaScript values are modelled as follows.  A string is a TLA+ string;  *)
(* a missing (undefined) string property is UNDEFINED.  A parsed JSON      *)
(* value is a record with a kind field ("null", "object", "array") and,    *)
(* for an object, only the properties the text carries.  An error message  *)
(* is a sequence of words, so that includes() is membership of a word.     *)
(* A number that is absent is 0, which JavaScript's || treats as absent    *)
(* too.                                                                    *)
(***************************************************************************)
EXTENDS Integers, Sequences, FiniteSets, TLC

VARIABLES
    svc,                 \* which copy of the service module is built
    pc,                  \* position of the generateInvestmentProposal invocation
    interaction,         \* services copy: state of the research interaction
    deepResearchReport,  \* local of generateInvestmentProposal
    researchEnd,         \* how the research phase of this invocation ended
    researchContext,     \* the research text embedded in the generation prompt
    call,                \* per caller: the state of its generateWithRetry call
    outcome,             \* settlement of the generateInvestmentProposal promise
    recommendations,     \* RebalanceSection state
    proposedAssets,      \* RebalanceSection state: the proposed-assets ledger
    loadingRecs,         \* RebalanceSection state
    error,               \* RebalanceSection state
    recsOutcome,         \* settlement of the last getAssetRecommendations promise
    recsCallFailed,      \* whether the AI call (or the parse) of that fetch failed
    currentHoldings,     \* InputSection state: profile.currentHoldings
    newHolding,          \* InputSection state: the entry row being typed
    now,                 \* the wall clock read by Date.now()
    amountInput,         \* the last text typed into an amount field, and where
    profile,             \* InputSection state: the profile fields but the holdings
    settings,            \* InputSection state: proposalCounts and proposalDetails
    isUploading,         \* InputSection state
    upload,              \* the processFile invocation in flight, if any
    notices,             \* the alert() dialogs raised by the last processFile
    data,                \* App state: the presentation document shown by SlideEditor
    currentSlideIndex,   \* SlideEditor state
    chatInput,           \* SlideEditor state
    isProcessing,        \* SlideEditor state
    rewrite,             \* the handleChatSubmit invocation in flight, if any
    step,                \* App state: the wizard step on display
    appProfile,          \* App state: profile, null until the input step is left
    appSettings,         \* App state: settings, null until the input step is left
    appProposedAssets,   \* App state: proposedAssets
    isGenerating,        \* App state
    reportCalls          \* the handleRebalanceComplete invocations in flight

vars == <<svc, pc, interaction, deepResearchReport, researchEnd, researchContext,
          call, outcome, recommendations, proposedAssets, loadingRecs, error,
          recsOutcome, recsCallFailed, currentHoldings, newHolding, now,
          amountInput, profile, settings, isUploading, upload, notices,
          data, currentSlideIndex, chatInput, isProcessing, rewrite,
          step, appProfile, appSettings, appProposedAssets, isGenerating, reportCalls>>

pipelineVars == <<pc, interaction, deepResearchReport, researchEnd,
                  researchContext, outcome>>
rebalanceVars == <<recommendations, proposedAssets, loadingRecs, error, recsOutcome,
                   recsCallFailed>>
inputVars == <<currentHoldings, newHolding>>
formVars == <<profile, settings, isUploading, upload, notices>>
editorVars == <<data, currentSlideIndex, chatInput, isProcessing, rewrite>>
appVars == <<step, appProfile, appSettings, appProposedAssets, isGenerating, reportCalls>>

-----------------------------------------------------------------------------
(* Bounds of the model *)

\* Largest number of entries a ledger grows to.
MaxLedger == 2
\* Last value of the wall clock; the clock stops ticking there.
MaxClock == 2
\* Math.random() draws from 1..MaxRandom.
MaxRandom == 2
\* Largest number of texts typed into amount fields.
MaxEdits == 1
\* Largest proposal count typed into the count input of a type.
MaxCount == 2
\* Largest number of rows of a generated table.
MaxRows == 2

-----------------------------------------------------------------------------
(* JavaScript values *)

UNDEFINED == "<undefined>"
NULL == "<null>"

\* A string used as a condition: "" and undefined are falsy.
Falsy(s) == s = "" \/ s = UNDEFINED

Variants == {"services", "part001"}
Callers == {"research", "generation", "recommendations"}


-----------------------------------------------------------------------------
(* Errors an external call can fail with, and their classification *)

NoError == [kind |-> "none"]
NoBody == [code |-> 0, message |-> <<>>, status |-> ""]

\* error.status, error.code, error.message, error.statusText and the nested
\* (error.response || error).error object read by generateWithRetry.
Errors ==
    { [kind |-> "error", status |-> 429, code |-> 0,
       message |-> <<"Too", "Many", "Requests">>, statusText |-> "", body |-> NoBody],
      [kind |-> "error", status |-> 0, code |-> 0,
       message |-> <<"You", "exceeded", "your", "Quota">>, statusText |-> "", body |-> NoBody],
      [kind |-> "error", status |-> 0, code |-> 0, message |-> <<>>, statusText |-> "",
       body |-> [code |-> 8, message |-> <<>>, status |-> "RESOURCE_EXHAUSTED"]],
      [kind |-> "error", status |-> 500, code |-> 429,
       message |-> <<"Internal", "error">>, statusText |-> "", body |-> NoBody],
      [kind |-> "error", status |-> 0, code |-> 0,
       message |-> <<"Failed", "to", "fetch">>, statusText |-> "", body |-> NoBody],
      [kind |-> "error", status |-> 0, code |-> 0, message |-> <<>>, statusText |-> "",
       body |-> [code |-> 3, message |-> <<"resource_exhausted">>, status |-> "INVALID_ARGUMENT"]] }

\* The error generateInvestmentProposal raises on an empty response text.
NoResponseError ==
    [kind |-> "error", status |-> 0, code |-> 0, message |-> <<"No", "response">>,
     statusText |-> "", body |-> NoBody]
\* The SyntaxError of JSON.parse and the TypeError of a property read on
\* null or undefined.
SyntaxError ==
    [kind |-> "error", status |-> 0, code |-> 0, message |-> <<"Unexpected", "token">>,
     statusText |-> "", body |-> NoBody]
TypeError ==
    [kind |-> "error", status |-> 0, code |-> 0,
     message |-> <<"Cannot", "read", "properties">>, statusText |-> "", body |-> NoBody]

\* String.prototype.toLowerCase on one word.
ToLowerCase(w) ==
    CASE w = "Quota" -> "quota"
      [] w = "QUOTA" -> "quota"
      [] w = "Too" -> "too"
      [] w = "Many" -> "many"
      [] w = "Requests" -> "requests"
      [] w = "You" -> "you"
      [] w = "Internal" -> "internal"
      [] w = "Failed" -> "failed"
      [] w = "RESOURCE_EXHAUSTED" -> "resource_exhausted"
      [] w = "COMPLETED" -> "completed"
      [] w = "SUCCEEDED" -> "succeeded"
      [] w = "FAILED" -> "failed"
      [] w = "ERROR" -> "error"
      [] w = "IN_PROGRESS" -> "in_progress"
      [] OTHER -> w

Includes(message, w) == \E k \in 1..Len(message) : message[k] = w
IncludesLower(message, w) == \E k \in 1..Len(message) : ToLowerCase(message[k]) = w

\* JSON.stringify(error): the words of the properties the error carries.
JSONstringifyError(e) ==
    (IF e.status = 429 \/ e.code = 429 \/ e.body.code = 429 THEN <<"429">> ELSE <<>>)
    \o (IF e.statusText # "" THEN <<e.statusText>> ELSE <<>>)
    \o (IF e.body.status # "" THEN <<e.body.status>> ELSE <<>>)

errorCode(e) ==
    IF e.status # 0 THEN e.status ELSE IF e.code # 0 THEN e.code ELSE e.body.code
errorMessage(e) ==
    IF e.message # <<>> THEN e.message
    ELSE IF e.body.message # <<>> THEN e.body.message ELSE JSONstringifyError(e)
errorStatus(e) ==
    IF e.statusText # "" THEN e.statusText ELSE e.body.status

isQuotaError(e) ==
    \/ errorCode(e) = 429
    \/ Includes(errorMessage(e), "429")
    \/ IncludesLower(errorMessage(e), "quota")
    \/ Includes(errorMessage(e), "RESOURCE_EXHAUSTED")
    \/ errorStatus(e) = "RESOURCE_EXHAUSTED"

-----------------------------------------------------------------------------
(* generateWithRetry *)

RetriesServices == 5
InitialDelayServices == 5000
RetriesPart001 == 3
InitialDelayPart001 == 2000

\* The defaults of the parameters; no call site passes others.
Retries(v) == IF v = "services" THEN RetriesServices ELSE RetriesPart001
InitialDelay(v) == IF v = "services" THEN InitialDelayServices ELSE InitialDelayPart001

NoResponse == [kind |-> "none"]
\* What the function returns when its loop ends without a return.
UndefinedResponse == [kind |-> "undefined"]
Response(t) == [kind |-> "response", text |-> t]

\* State of one generateWithRetry call: the loop index i, the local delay,
\* and, as history, the number of endpoint invocations (attempts), the
\* timeouts it has set (waits), the error last caught and, once settled,
\* the response returned (resp) or the error thrown (err).
GwrIdle ==
    [st |-> "idle", i |-> 0, delay |-> 0, attempts |-> 0, waits |-> <<>>,
     caught |-> NoError, err |-> NoError, resp |-> NoResponse]

\* Entry: delay = initialDelay, i = 0 and, when the loop is entered, the
\* first generateContent call is issued.
GwrStart(retries, initialDelay) ==
    IF 0 < retries
    THEN [GwrIdle EXCEPT !.st = "calling", !.delay = initialDelay, !.attempts = 1]
    ELSE [GwrIdle EXCEPT !.st = "returned", !.delay = initialDelay,
                         !.resp = UndefinedResponse]

\* generateContent resolved: return await ...
GwrReturn(s, resp) == [s EXCEPT !.st = "returned", !.resp = resp]

GwrCatch_RetryAnyError(s, e, retries) ==
    IF s.i < retries - 1
    THEN [s EXCEPT !.st = "waiting", !.waits = Append(@, s.delay), !.caught = e]
    ELSE [s EXCEPT !.st = "thrown", !.caught = e, !.err = e]

\* generateContent rejected: the catch block.
GwrCatch(s, e, retries) ==
    IF isQuotaError(e) /\ s.i < retries - 1
    THEN [s EXCEPT !.st = "waiting", !.waits = Append(@, s.delay), !.caught = e]
    ELSE [s EXCEPT !.st = "thrown", !.caught = e, !.err = e]

GwrContinue_ConstantDelay(s, retries) ==
    IF s.i + 1 < retries
    THEN [s EXCEPT !.st = "calling", !.i = @ + 1, !.attempts = @ + 1]
    ELSE [s EXCEPT !.st = "returned", !.i = @ + 1, !.resp = UndefinedResponse]

\* The backoff timer fired: delay *= 2; continue; i++; the next attempt.
GwrContinue(s, retries) ==
    IF s.i + 1 < retries
    THEN [s EXCEPT !.st = "calling", !.delay = 2 * @, !.i = @ + 1, !.attempts = @ + 1]
    ELSE [s EXCEPT !.st = "returned", !.delay = 2 * @, !.i = @ + 1,
                   !.resp = UndefinedResponse]

-----------------------------------------------------------------------------
(* Documents, candidates and JSON.parse *)

\* getMockProposal(): the fixed fallback document.
getMockProposal ==
    [kind |-> "object", title |-> "Asset management proposal", clientName |-> "Client",
     slides |-> <<[id |-> "1", type |-> "Title", title |-> "Asset management analysis report",
                   subtitle |-> "A system error occurred"]>>]

\* A document as the generator returns it when it follows the schema.
GeneratedDeck ==
    [kind |-> "object", title |-> "Proposal", clientName |-> "Yamada",
     slides |-> <<[id |-> "s1", type |-> "Title", title |-> "Cover"],
                  [id |-> "s2", type |-> "RebalanceProposal", title |-> "Plan",
                   bodyText |-> "Sell A, buy B"]>>]

\* A candidate as the recommender returns it: bare data, no id.
Candidate ==
    [name |-> "Toyota", code |-> "7203", type |-> "Stock", currency |-> "JPY"]

\* The response texts the endpoint is taken to return.
GenerationTexts ==
    {UNDEFINED, "", "I am sorry", "null", "{}", "[]",
     "{title,slides:[]}", "{title,clientName,slides:[Title,RebalanceProposal]}"}
RecommendationTexts ==
    {UNDEFINED, "", "I am sorry", "null", "{}", "[]", "[Toyota,Toyota]"}

\* JSON.parse: the value a text denotes, or a SyntaxError.
JSONparse(t) ==
    CASE t = "null" -> [ok |-> TRUE, value |-> [kind |-> "null"]]
      [] t = "{}" -> [ok |-> TRUE, value |-> [kind |-> "object"]]
      [] t = "[]" -> [ok |-> TRUE, value |-> [kind |-> "array", items |-> <<>>]]
      [] t = "{title,slides:[]}" ->
            [ok |-> TRUE, value |-> [kind |-> "object", title |-> "Proposal", slides |-> <<>>]]
      [] t = "{title,clientName,slides:[Title,RebalanceProposal]}" ->
            [ok |-> TRUE, value |-> GeneratedDeck]
      [] t = "[Toyota,Toyota]" ->
            [ok |-> TRUE, value |-> [kind |-> "array", items |-> <<Candidate, Candidate>>]]
      [] OTHER -> [ok |-> FALSE, error |-> SyntaxError]

\* The structural contract of a PresentationData: an object whose slides
\* property is a non-empty array of slides.
IsPresentationData(v) ==
    /\ v.kind = "object"
    /\ "title" \in DOMAIN v
    /\ "slides" \in DOMAIN v
    /\ Len(v.slides) > 0
    /\ \A k \in 1..Len(v.slides) : {"id", "type", "title"} \subseteq DOMAIN v.slides[k]

\* Settlement of a promise.
Unsettled == [kind |-> "none"]
Pending == [kind |-> "pending"]
Resolved(v) == [kind |-> "resolved", value |-> v]
Rejected(e) == [kind |-> "rejected", error |-> e]

-----------------------------------------------------------------------------
(* generateInvestmentProposal: the research phase *)

ResearchUnavailable == "Deep research data unavailable. Please use internal knowledge."
ResearchNotCompleted ==
    "Deep research could not be completed due to network or API issues. Using internal knowledge base."

\* Interaction objects interactions.create and interactions.get resolve to;
\* [kind |-> "null"] is a null or undefined result.
Interactions ==
    { [kind |-> "null"],
      [kind |-> "interaction", status |-> "in_progress", state |-> "", outputs |-> <<>>],
      [kind |-> "interaction", status |-> "", state |-> "", outputs |-> <<>>],
      [kind |-> "interaction", status |-> "cancelled", state |-> "", outputs |-> <<>>],
      [kind |-> "interaction", status |-> "COMPLETED", state |-> "",
       outputs |-> <<[text |-> "draft"], [text |-> "research report"]>>],
      [kind |-> "interaction", status |-> "", state |-> "SUCCEEDED", outputs |-> <<>>],
      [kind |-> "interaction", status |-> "completed", state |-> "",
       outputs |-> <<[text |-> UNDEFINED]>>],
      [kind |-> "interaction", status |-> "failed", state |-> "", outputs |-> <<>>],
      [kind |-> "interaction", status |-> "", state |-> "ERROR", outputs |-> <<>>] }

\* interaction.status?.toLowerCase() || interaction.state?.toLowerCase()
interactionStatus(x) ==
    IF ToLowerCase(x.status) # "" THEN ToLowerCase(x.status) ELSE ToLowerCase(x.state)

\* The research responses of the part001 copy: text and grounding uris.
ResearchResponses ==
    { [kind |-> "response", text |-> "findings", uris |-> <<>>],
      [kind |-> "response", text |-> "findings", uris |-> <<"u1", "u2">>],
      [kind |-> "response", text |-> "", uris |-> <<>>],
      [kind |-> "response", text |-> UNDEFINED,
       uris |-> <<"u1", "u2", "u3", "u4", "u5", "u6">>] }

RECURSIVE Join(_, _)
\* Array.prototype.join
Join(parts, sep) ==
    IF parts = <<>> THEN ""
    ELSE IF Len(parts) = 1 THEN parts[1]
    ELSE parts[1] \o sep \o Join(Tail(parts), sep)

\* performDeepResearch, the body of its try block.
performDeepResearchTry(response) ==
    LET text == IF Falsy(response.text) THEN "" ELSE response.text
        urls == SubSeq(response.uris, 1, IF Len(response.uris) < 5 THEN Len(response.uris) ELSE 5)
        sourceLinks == IF Len(urls) > 0 THEN "\n\nReferenced Sources:\n" \o Join(urls, "\n")
                       ELSE ""
    IN  text \o sourceLinks

\* The research text the prompt embeds: deepResearchReport || "...unavailable...".
promptResearch(report) == IF Falsy(report) THEN ResearchUnavailable ELSE report

\* How the research of the part001 copy settles once its generateWithRetry
\* call has: the try block of performDeepResearch, or its catch.
researchSettle(r) ==
    IF r.st = "thrown" \/ r.resp.kind # "response"
    THEN ResearchNotCompleted
    ELSE performDeepResearchTry(r.resp)

researchHow(r) ==
    IF r.st = "thrown" \/ r.resp.kind # "response" THEN "exception"
    ELSE IF Falsy(performDeepResearchTry(r.resp)) THEN "empty" ELSE "completed"

-----------------------------------------------------------------------------
(* generateInvestmentProposal: the generation phase *)

\* The try block around the generation call: response.text, the empty-text
\* check and JSON.parse(text) as PresentationData.
generationTry(response) ==
    IF response.kind # "response" THEN Rejected(TypeError)
    ELSE IF Falsy(response.text) THEN Rejected(NoResponseError)
    ELSE LET parsed == JSONparse(response.text)
         IN  IF parsed.ok THEN Resolved(parsed.value) ELSE Rejected(parsed.error)

generationCatch_Rethrow(e) == Rejected(e)

\* The catch block: return getMockProposal().
generationCatch(e) == Resolved(getMockProposal)

\* Settlement of generateInvestmentProposal once its generation call settled.
generationSettle(g) ==
    IF g.st = "thrown" THEN generationCatch(g.err)
    ELSE LET r == generationTry(g.resp)
         IN  IF r.kind = "rejected" THEN generationCatch(r.error) ELSE r

Settled(s) == s.st \in {"returned", "thrown"}

BeginGeneration_SkipOnResearchFailure(report, how, r) ==
    /\ deepResearchReport' = report
    /\ researchEnd' = how
    /\ researchContext' = promptResearch(report)
    /\ interaction' = "none"
    /\ IF how \in {"exception", "failed"}
       THEN /\ call' = [call EXCEPT !["research"] = r]
            /\ pc' = "done"
            /\ outcome' = Resolved(getMockProposal)
       ELSE LET g == GwrStart(Retries(svc), InitialDelay(svc))
            IN  /\ call' = [call EXCEPT !["research"] = r, !["generation"] = g]
                /\ pc' = IF Settled(g) THEN "done" ELSE "generation"
                /\ outcome' = IF Settled(g) THEN generationSettle(g) ELSE Pending

\* The research phase is over with deepResearchReport = report (r is the
\* state its generateWithRetry call is left in): build the prompt and issue
\* the generation call.
BeginGeneration(report, how, r) ==
    LET g == GwrStart(Retries(svc), InitialDelay(svc))
    IN  /\ deepResearchReport' = report
        /\ researchEnd' = how
        /\ researchContext' = promptResearch(report)
        /\ interaction' = "none"
        /\ call' = [call EXCEPT !["research"] = r, !["generation"] = g]
        /\ pc' = IF Settled(g) THEN "done" ELSE "generation"
        /\ outcome' = IF Settled(g) THEN generationSettle(g) ELSE Pending

\* The generation call moved to state g.
GenerationStep(g) ==
    /\ call' = [call EXCEPT !["generation"] = g]
    /\ pc' = IF Settled(g) THEN "done" ELSE "generation"
    /\ outcome' = IF Settled(g) THEN generationSettle(g) ELSE outcome
    /\ UNCHANGED <<interaction, deepResearchReport, researchEnd, researchContext>>

\* The research call of the part001 copy moved to state r.
ResearchStep(r) ==
    IF Settled(r)
    THEN BeginGeneration(researchSettle(r), researchHow(r), r)
    ELSE /\ call' = [call EXCEPT !["research"] = r]
         /\ UNCHANGED pipelineVars

otherThanPipeline ==
    <<svc, rebalanceVars, inputVars, now, amountInput, formVars, editorVars, appVars>>

InvokeProposal_NoAwait ==
    /\ pc \in {"idle", "done"}
    /\ interaction' = IF svc = "services" THEN "creating" ELSE "none"
    /\ pc' = "research"
    /\ deepResearchReport' = ""
    /\ researchEnd' = "none"
    /\ researchContext' = ""
    /\ call' = [call EXCEPT
                  !["research"] = IF svc = "services" THEN GwrIdle
                                  ELSE GwrStart(Retries(svc), InitialDelay(svc)),
                  !["generation"] = GwrStart(Retries(svc), InitialDelay(svc))]
    /\ outcome' = Pending
    /\ UNCHANGED otherThanPipeline

\* A call of generateInvestmentProposal, up to its first await.
InvokeProposal ==
    /\ pc \in {"idle", "done"}
    /\ IF svc = "services"
       THEN \E interactionsClient \in BOOLEAN :
              IF interactionsClient
              THEN /\ interaction' = "creating"
                   /\ pc' = "research"
                   /\ deepResearchReport' = ""
                   /\ researchEnd' = "none"
                   /\ researchContext' = ""
                   /\ call' = [call EXCEPT !["research"] = GwrIdle, !["generation"] = GwrIdle]
                   /\ outcome' = Pending
              ELSE BeginGeneration("", "skipped", GwrIdle)
       ELSE /\ interaction' = "none"
            /\ pc' = "research"
            /\ deepResearchReport' = ""
            /\ researchEnd' = "none"
            /\ researchContext' = ""
            /\ call' = [call EXCEPT !["research"] = GwrStart(Retries(svc), InitialDelay(svc)),
                                    !["generation"] = GwrIdle]
            /\ outcome' = Pending
    /\ UNCHANGED otherThanPipeline

\* services copy: interactions.create resolved.
InteractionCreateResolves ==
    /\ pc = "research" /\ interaction = "creating"
    /\ \E x \in Interactions :
         IF x.kind = "null"
         THEN BeginGeneration(deepResearchReport, "exception", call["research"])
         ELSE /\ interaction' = "sleeping"
              /\ UNCHANGED <<pc, deepResearchReport, researchEnd, researchContext, call, outcome>>
    /\ UNCHANGED otherThanPipeline

\* services copy: interactions.create or interactions.get rejected.
InteractionRejects ==
    /\ pc = "research" /\ interaction \in {"creating", "getting"}
    /\ BeginGeneration(deepResearchReport, "exception", call["research"])
    /\ UNCHANGED otherThanPipeline

\* services copy: the 10 s timer of the polling loop fired; interactions.get
\* is issued.
PollTimerFires ==
    /\ pc = "research" /\ interaction = "sleeping"
    /\ interaction' = "getting"
    /\ UNCHANGED <<pc, deepResearchReport, researchEnd, researchContext, call, outcome>>
    /\ UNCHANGED otherThanPipeline

\* services copy: interactions.get resolved; one turn of the polling loop.
InteractionGetResolves ==
    /\ pc = "research" /\ interaction = "getting"
    /\ \E x \in Interactions :
         IF x.kind = "null"
         THEN BeginGeneration(deepResearchReport, "exception", call["research"])
         ELSE LET status == interactionStatus(x)
              IN  IF status \in {"completed", "succeeded"}
                  THEN LET report == IF Len(x.outputs) > 0
                                     THEN x.outputs[Len(x.outputs)].text
                                     ELSE deepResearchReport
                       IN  BeginGeneration(report,
                                           IF Falsy(report) THEN "empty" ELSE "completed",
                                           call["research"])
                  ELSE IF status \in {"failed", "error"}
                  THEN BeginGeneration(deepResearchReport, "failed", call["research"])
                  ELSE /\ interaction' = "sleeping"
                       /\ UNCHANGED <<pc, deepResearchReport, researchEnd, researchContext,
                                      call, outcome>>
    /\ UNCHANGED otherThanPipeline

\* part001 copy: the generateContent call of performDeepResearch resolved.
ResearchResolves ==
    /\ pc = "research" /\ call["research"].st = "calling"
    /\ \E response \in ResearchResponses : ResearchStep(GwrReturn(call["research"], response))
    /\ UNCHANGED otherThanPipeline

\* part001 copy: the generateContent call of performDeepResearch rejected.
ResearchRejects ==
    /\ pc = "research" /\ call["research"].st = "calling"
    /\ \E e \in Errors : ResearchStep(GwrCatch(call["research"], e, Retries(svc)))
    /\ UNCHANGED otherThanPipeline

\* part001 copy: the backoff timer of the research call fired.
ResearchBackoffFires ==
    /\ pc = "research" /\ call["research"].st = "waiting"
    /\ ResearchStep(GwrContinue(call["research"], Retries(svc)))
    /\ UNCHANGED otherThanPipeline

\* The generateContent call of the generation phase resolved.
GenerationResolves ==
    /\ pc = "generation" /\ call["generation"].st = "calling"
    /\ \E t \in GenerationTexts : GenerationStep(GwrReturn(call["generation"], Response(t)))
    /\ UNCHANGED otherThanPipeline

\* The generateContent call of the generation phase rejected.
GenerationRejects ==
    /\ pc = "generation" /\ call["generation"].st = "calling"
    /\ \E e \in Errors : GenerationStep(GwrCatch(call["generation"], e, Retries(svc)))
    /\ UNCHANGED otherThanPipeline

\* The backoff timer of the generation call fired.
GenerationBackoffFires ==
    /\ pc = "generation" /\ call["generation"].st = "waiting"
    /\ GenerationStep(GwrContinue(call["generation"], Retries(svc)))
    /\ UNCHANGED otherThanPipeline

-----------------------------------------------------------------------------
(* getAssetRecommendations *)

EmptyArray == [kind |-> "array", items |-> <<>>]

\* The try block: JSON.parse(response.text || "[]").
recommendationsTry(response) ==
    IF response.kind # "response" THEN Rejected(TypeError)
    ELSE LET parsed == JSONparse(IF Falsy(response.text) THEN "[]" ELSE response.text)
         IN  IF parsed.ok THEN Resolved(parsed.value) ELSE Rejected(parsed.error)

\* The catch block: the services copy returns [], the part001 copy rethrows.
recommendationsCatch(v, e) ==
    IF v = "services" THEN Resolved(EmptyArray) ELSE Rejected(e)

\* Settlement of getAssetRecommendations once its generateWithRetry call settled.
recommendationsSettle(v, r) ==
    IF r.st = "thrown" THEN recommendationsCatch(v, r.err)
    ELSE LET t == recommendationsTry(r.resp)
         IN  IF t.kind = "rejected" THEN recommendationsCatch(v, t.error) ELSE t

\* The underlying AI call failed, or its response text cannot be parsed.
recommendationsFailed(r) ==
    \/ r.st = "thrown"
    \/ r.st = "returned" /\ recommendationsTry(r.resp).kind = "rejected"

-----------------------------------------------------------------------------
(* RebalanceSection *)

\* { ...a, ...b }
Merge(a, b) ==
    [k \in DOMAIN a \cup DOMAIN b |-> IF k \in DOMAIN b THEN b[k] ELSE a[k]]

\* Array.prototype.filter
Filter(array, Test(_)) ==
    LET hits == {k \in 1..Len(array) : Test(array[k])}
    IN  [i \in 1..Cardinality(hits) |->
            array[CHOOSE k \in hits : Cardinality({j \in hits : j <= k}) = i]]

\* An id built from a prefix and a number: `rec-${Math.random()}`,
\* `prop-${Math.random()}`, `manual-${Date.now()}`, Date.now().toString().
Id(prefix, n) == [prefix |-> prefix, n |-> n]

DefaultAmount == 1000000
\* confidence: 1.0, in hundredths.
FullConfidence == 100

FetchErrorMessage == "AI recommendation fetch failed. Please retry later."

\* Entries of the POPULAR_ASSETS list offered by the manual search.
PopularAssets ==
    { [name |-> "Toyota", code |-> "7203", type |-> "Stock", currency |-> "JPY"],
      [name |-> "eMAXIS Slim", code |-> "0331418A", type |-> "Mutual Fund", currency |-> "JPY"] }

\* recs.map(r => ({ ...r, id: `rec-${Math.random()}` })), one draw per element.
WithRecIds(items, draws) ==
    [k \in 1..Len(items) |-> Merge(items[k], [id |-> Id("rec", draws[k])])]

\* The getAssetRecommendations call of fetchRecs moved to state r: when it
\* settled, the rest of fetchRecs (try, catch, finally) runs and the locals
\* of the finished generateWithRetry call are gone.
FetchRecsStep(r) ==
    /\ call' = [call EXCEPT !["recommendations"] = IF Settled(r) THEN GwrIdle ELSE r]
    /\ recsCallFailed' = (Settled(r) /\ recommendationsFailed(r))
    /\ IF Settled(r)
       THEN LET settled == recommendationsSettle(svc, r)
            IN  /\ recsOutcome' = settled
                /\ loadingRecs' = FALSE
                /\ IF settled.kind = "resolved" /\ settled.value.kind = "array"
                   THEN /\ \E draws \in [1..Len(settled.value.items) -> 1..MaxRandom] :
                             recommendations' = WithRecIds(settled.value.items, draws)
                        /\ UNCHANGED error
                   ELSE /\ error' = FetchErrorMessage
                        /\ UNCHANGED recommendations
       ELSE UNCHANGED <<recsOutcome, loadingRecs, recommendations, error>>
    /\ UNCHANGED proposedAssets

otherThanRebalance ==
    <<svc, pipelineVars, inputVars, now, amountInput, formVars, editorVars, appVars>>

\* fetchRecs up to its await (the mount effect and both retry buttons).
fetchRecs ==
    /\ ~loadingRecs
    /\ loadingRecs' = TRUE
    /\ error' = NULL
    /\ recsOutcome' = Pending
    /\ recsCallFailed' = FALSE
    /\ call' = [call EXCEPT !["recommendations"] = GwrStart(Retries(svc), InitialDelay(svc))]
    /\ UNCHANGED <<recommendations, proposedAssets>>
    /\ UNCHANGED otherThanRebalance

RecommendationsResolves ==
    /\ loadingRecs /\ call["recommendations"].st = "calling"
    /\ \E t \in RecommendationTexts :
         FetchRecsStep(GwrReturn(call["recommendations"], Response(t)))
    /\ UNCHANGED otherThanRebalance

RecommendationsRejects ==
    /\ loadingRecs /\ call["recommendations"].st = "calling"
    /\ \E e \in Errors : FetchRecsStep(GwrCatch(call["recommendations"], e, Retries(svc)))
    /\ UNCHANGED otherThanRebalance

RecommendationsBackoffFires ==
    /\ loadingRecs /\ call["recommendations"].st = "waiting"
    /\ FetchRecsStep(GwrContinue(call["recommendations"], Retries(svc)))
    /\ UNCHANGED otherThanRebalance

\* addToProposal(asset), from the plus button of a listed recommendation
\* (the list is rendered only while error is null).
addToProposal ==
    /\ error = NULL
    /\ Len(proposedAssets) < MaxLedger
    /\ \E k \in 1..Len(recommendations), random \in 1..MaxRandom :
         proposedAssets' =
             Append(proposedAssets,
                    Merge(recommendations[k],
                          [id |-> Id("prop", random), amount |-> DefaultAmount]))
    /\ UNCHANGED <<recommendations, loadingRecs, error, recsOutcome, recsCallFailed, call>>
    /\ UNCHANGED otherThanRebalance

\* selectManualAsset(stock), from a suggestion of the manual search.
selectManualAsset ==
    /\ Len(proposedAssets) < MaxLedger
    /\ \E stock \in PopularAssets :
         proposedAssets' =
             Append(proposedAssets,
                    [id |-> Id("manual", now), name |-> stock.name, code |-> stock.code,
                     type |-> stock.type, currency |-> stock.currency,
                     amount |-> DefaultAmount, confidence |-> FullConfidence,
                     description |-> "manual"])
    /\ UNCHANGED <<recommendations, loadingRecs, error, recsOutcome, recsCallFailed, call>>
    /\ UNCHANGED otherThanRebalance

\* Array.prototype.filter(x => x.id !== id)
RECURSIVE WithoutId(_, _)
WithoutId(ledger, id) ==
    IF ledger = <<>> THEN <<>>
    ELSE IF Head(ledger).id = id THEN WithoutId(Tail(ledger), id)
    ELSE <<Head(ledger)>> \o WithoutId(Tail(ledger), id)

\* removeProposed(id), from the trash button of a ledger row.
removeProposed ==
    /\ \E k \in 1..Len(proposedAssets) :
         proposedAssets' = WithoutId(proposedAssets, proposedAssets[k].id)
    /\ UNCHANGED <<recommendations, loadingRecs, error, recsOutcome, recsCallFailed, call>>
    /\ UNCHANGED otherThanRebalance

-----------------------------------------------------------------------------
(* InputSection: the holdings ledger *)

EmptyHolding ==
    [name |-> "", code |-> "", type |-> "Stock", amount |-> 0, quantity |-> 0,
     profitLoss |-> 0, currency |-> "JPY"]

otherThanInput ==
    <<svc, pipelineVars, rebalanceVars, call, now, amountInput, formVars, editorVars, appVars>>

\* handleAssetSearch(input): the name typed into the entry row.
handleAssetSearch ==
    /\ \E input \in {"", "Sony"} : newHolding' = [newHolding EXCEPT !.name = input]
    /\ UNCHANGED currentHoldings
    /\ UNCHANGED otherThanInput

\* addHolding()
addHolding ==
    /\ newHolding.name # ""
    /\ Len(currentHoldings) < MaxLedger
    /\ currentHoldings' =
           Append(currentHoldings,
                  Merge(newHolding, [id |-> Id("", now), confidence |-> FullConfidence]))
    /\ newHolding' = EmptyHolding
    /\ UNCHANGED otherThanInput

\* The trash button of a holdings row.
removeHolding ==
    /\ \E k \in 1..Len(currentHoldings) :
         currentHoldings' = WithoutId(currentHoldings, currentHoldings[k].id)
    /\ UNCHANGED newHolding
    /\ UNCHANGED otherThanInput

\* Time passes: Date.now() grows by a millisecond.
Tick ==
    /\ now < MaxClock
    /\ now' = now + 1
    /\ UNCHANGED <<svc, pipelineVars, rebalanceVars, inputVars, call>>
    /\ UNCHANGED <<amountInput, formVars, editorVars, appVars>>

-----------------------------------------------------------------------------
(* Amount fields: the text typed into an amount input and what is stored *)

\* A text is the sequence of the UTF-16 code units of its characters.
\* String.fromCharCode(s.charCodeAt(0) - 0xFEE0)
FullWidthOffset == 65248
\* The code units of "０" and "９", the ends of the class [０-９].
FullWidthZero == 65296
FullWidthNine == 65305
\* The code unit of "，", the full-width comma.
FullWidthComma == 65292
CharComma == 44
CharMinus == 45
CharPlus == 43
CharZero == 48
CharNine == 57
CharLowerA == 97

\* val.replace(/[０-９]/g, (s) => String.fromCharCode(s.charCodeAt(0) - 0xFEE0))
ToHalfWidth(val) ==
    [k \in 1..Len(val) |->
        IF val[k] >= FullWidthZero /\ val[k] <= FullWidthNine
        THEN val[k] - FullWidthOffset
        ELSE val[k]]

\* text.replace(/,/g, '')
RECURSIVE StripCommas(_)
StripCommas(text) ==
    IF text = <<>> THEN <<>>
    ELSE IF Head(text) = CharComma THEN StripCommas(Tail(text))
    ELSE <<Head(text)>> \o StripCommas(Tail(text))

\* The first statement of handleAmountChange and of updateProposedAmount.
Normalize(val) == StripCommas(ToHalfWidth(val))

IsDigit(c) == c >= CharZero /\ c <= CharNine

\* The longest run of decimal digits text starts with.
RECURSIVE DigitPrefix(_)
DigitPrefix(text) ==
    IF text = <<>> \/ ~IsDigit(Head(text)) THEN <<>>
    ELSE <<Head(text)>> \o DigitPrefix(Tail(text))

\* The number a run of decimal digits denotes.
RECURSIVE DigitsToNumber(_)
DigitsToNumber(digits) ==
    IF digits = <<>> THEN 0
    ELSE 10 * DigitsToNumber(SubSeq(digits, 1, Len(digits) - 1))
         + (digits[Len(digits)] - CharZero)

NaN == [isNaN |-> TRUE, num |-> 0]
Number(n) == [isNaN |-> FALSE, num |-> n]

\* parseFloat(text), for the texts of AmountTexts: they carry no white space,
\* no decimal point, no exponent and do not spell Infinity.  An optional sign,
\* then the longest run of digits; NaN when that run is empty; whatever
\* follows the run is ignored.
parseFloat(text) ==
    LET signed == text # <<>> /\ Head(text) \in {CharMinus, CharPlus}
        digits == DigitPrefix(IF signed THEN Tail(text) ELSE text)
    IN  IF digits = <<>> THEN NaN
        ELSE IF signed /\ Head(text) = CharMinus THEN Number(0 - DigitsToNumber(digits))
        ELSE Number(DigitsToNumber(digits))

\* What an amount handler does with its text: call the setter with a value,
\* or leave the field alone.
Apply(n) == [apply |-> TRUE, value |-> n]
Ignore == [apply |-> FALSE, value |-> 0]

\* handleAmountChange(val, field, updateFn) of InputSection.
handleAmountChangeValue(val) ==
    LET normalized == Normalize(val)
        num == parseFloat(normalized)
    IN  IF normalized = <<>> \/ normalized = <<CharMinus>> THEN Apply(0)
        ELSE IF ~num.isNaN THEN Apply(num.num)
        ELSE Ignore

\* updateProposedAmount(id, val) of RebalanceSection, up to its setter.
updateProposedAmountValue(val) ==
    LET normalized == Normalize(val)
        num == parseFloat(normalized)
    IN  IF ~num.isNaN THEN Apply(num.num)
        ELSE IF val = <<>> THEN Apply(0)
        ELSE Ignore

\* The texts typed into amount fields: "１，２３４" with the full-width comma,
\* "１,２３４" and "1,234" with the ASCII comma, "", "-", "-5", "a", "７", "5a".
AmountTexts ==
    { <<65297, FullWidthComma, 65298, 65299, 65300>>,
      <<65297, CharComma, 65298, 65299, 65300>>,
      <<49, CharComma, 50, 51, 52>>,
      <<>>,
      <<CharMinus>>,
      <<CharMinus, 53>>,
      <<CharLowerA>>,
      <<65303>>,
      <<53, CharLowerA>> }

NoAmountInput == [target |-> "none", id |-> Id("", 0), field |-> "", text |-> <<>>, n |-> 0]

\* prev.map(p => p.id === id ? { ...p, [field]: value } : p)
SetField(ledger, id, field, value) ==
    [k \in 1..Len(ledger) |->
        IF ledger[k].id = id THEN Merge(ledger[k], [f \in {field} |-> value])
        ELSE ledger[k]]

\* updateProposedAmount(p.id, e.target.value), from the amount input of a
\* proposed-assets row.
updateProposedAmount ==
    /\ amountInput.n < MaxEdits
    /\ \E k \in 1..Len(proposedAssets), val \in AmountTexts :
         LET id == proposedAssets[k].id
             r == updateProposedAmountValue(val)
         IN  /\ proposedAssets' =
                   IF r.apply THEN SetField(proposedAssets, id, "amount", r.value)
                   ELSE proposedAssets
             /\ amountInput' = [target |-> "proposed", id |-> id, field |-> "amount",
                                text |-> val, n |-> amountInput.n + 1]
    /\ UNCHANGED <<recommendations, loadingRecs, error, recsOutcome, recsCallFailed, call>>
    /\ UNCHANGED <<svc, pipelineVars, inputVars, now, formVars, editorVars, appVars>>

\* updateHoldingRow(id, field, value)
updateHoldingRow(id, field, value) ==
    currentHoldings' = SetField(currentHoldings, id, field, value)

\* handleAmountChange(e.target.value, field, (v) => updateHoldingRow(h.id, field, v)),
\* from the amount and the profit/loss input of a holdings row.
handleAmountChange ==
    /\ amountInput.n < MaxEdits
    /\ \E k \in 1..Len(currentHoldings), field \in {"amount", "profitLoss"},
          val \in AmountTexts :
         LET id == currentHoldings[k].id
             r == handleAmountChangeValue(val)
         IN  /\ IF r.apply THEN updateHoldingRow(id, field, r.value)
                ELSE UNCHANGED currentHoldings
             /\ amountInput' = [target |-> "holdings", id |-> id, field |-> field,
                                text |-> val, n |-> amountInput.n + 1]
    /\ UNCHANGED newHolding
    /\ UNCHANGED <<svc, pipelineVars, rebalanceVars, call, now, formVars, editorVars, appVars>>

-----------------------------------------------------------------------------
(* InputSection: the proposal settings *)

\* The asset types listed by the settings panel.
ProposalTypes == {"Stock", "Mutual Fund", "Bond", "Insurance", "ETF"}

\* The sub-category chips clicked in this model, out of SUB_CATEGORIES.
SubCategories ==
    [type \in ProposalTypes |->
        CASE type = "Stock" -> {"Technology", "Semiconductors"}
          [] type = "Bond" -> {"US Treasuries"}
          [] OTHER -> {}]

\* currentDetails.includes(sub)
IncludesElement(array, x) == \E k \in 1..Len(array) : array[k] = x

\* currentDetails.filter(d => d !== sub)
RECURSIVE Without(_, _)
Without(array, x) ==
    IF array = <<>> THEN <<>>
    ELSE IF Head(array) = x THEN Without(Tail(array), x)
    ELSE <<Head(array)>> \o Without(Tail(array), x)

\* The own keys of the proposalCounts literal, in the order it lists them;
\* Object.entries walks the keys of an object in the order they were added.
InitialCountKeys == <<"Stock", "Mutual Fund", "Bond", "Insurance", "ETF">>

\* useState<ProposalSettings>(initialSettings || {...}); proposalCountKeys is
\* the key order of the proposalCounts object.
InitialSettings ==
    [proposalCounts |-> [type \in ProposalTypes |-> IF type = "Stock" THEN 3 ELSE 0],
     proposalCountKeys |-> InitialCountKeys,
     proposalDetails |-> [type \in ProposalTypes |-> <<>>]]

\* A variant of the spread below that moves a rewritten key to the end.
KeysAfterSpread_MoveToEnd(keys, type) == Append(Without(keys, type), type)

\* The key order of { ...prev.proposalCounts, [type]: value }: a key the
\* object has keeps its place, a new key goes to the end.
KeysAfterSpread(keys, type) ==
    IF IncludesElement(keys, type) THEN keys ELSE Append(keys, type)

\* The updater of handleProposalCountChange(type, count).
ProposalCountChanged(prev, type, count) ==
    [prev EXCEPT !.proposalCounts[type] = count,
                 !.proposalCountKeys = KeysAfterSpread(@, type)]

\* A variant of the updater of toggleProposalType that drops the selection
\* of a type switched off.
ProposalTypeToggled_ClearDetails(prev, type) ==
    LET currentCount == prev.proposalCounts[type]
    IN  [prev EXCEPT !.proposalCounts[type] = IF currentCount > 0 THEN 0 ELSE 1,
                     !.proposalCountKeys = KeysAfterSpread(@, type),
                     !.proposalDetails[type] = IF currentCount > 0 THEN <<>> ELSE @]

\* The updater of toggleProposalType(type).
ProposalTypeToggled(prev, type) ==
    LET currentCount == prev.proposalCounts[type]
    IN  [prev EXCEPT !.proposalCounts[type] = IF currentCount > 0 THEN 0 ELSE 1,
                     !.proposalCountKeys = KeysAfterSpread(@, type)]

\* The updater of toggleSubCategory(type, sub).
SubCategoryToggled(prev, type, sub) ==
    LET currentDetails == prev.proposalDetails[type]
        newDetails == IF IncludesElement(currentDetails, sub)
                      THEN Without(currentDetails, sub)
                      ELSE Append(currentDetails, sub)
    IN  [prev EXCEPT !.proposalDetails[type] = newDetails]

otherThanSettings ==
    <<svc, pipelineVars, rebalanceVars, inputVars, call, now, amountInput,
      profile, isUploading, upload, notices, editorVars, appVars>>

\* The count input of a checked type: Math.max(1, parseInt(value) || 1).
handleProposalCountChange ==
    /\ \E type \in ProposalTypes, count \in 1..MaxCount :
         /\ settings.proposalCounts[type] > 0
         /\ settings' = ProposalCountChanged(settings, type, count)
    /\ UNCHANGED otherThanSettings

\* The checkbox of a type.
toggleProposalType ==
    /\ \E type \in ProposalTypes : settings' = ProposalTypeToggled(settings, type)
    /\ UNCHANGED otherThanSettings

\* A sub-category chip; the chips of a type show while the type is checked.
toggleSubCategory ==
    /\ \E type \in ProposalTypes :
         /\ settings.proposalCounts[type] > 0
         /\ \E sub \in SubCategories[type] :
              settings' = SubCategoryToggled(settings, type, sub)
    /\ UNCHANGED otherThanSettings

\* getAssetRecommendations, the request list of its prompt:
\* Object.entries(settings.proposalCounts).filter(([_, count]) => count > 0)
\* .map(...).  An entry of the list is kept as its parts (the type, the count
\* and the sub-categories joined into detailStr) instead of the text built
\* from them; s.proposalDetails?.[type] of a type without details is absent.
requestsOf(s) ==
    LET Requested(type) == s.proposalCounts[type] > 0
        Request(type) ==
            [type |-> type, count |-> s.proposalCounts[type],
             details |-> IF type \in DOMAIN s.proposalDetails
                         THEN s.proposalDetails[type] ELSE <<>>]
        entries == Filter(s.proposalCountKeys, Requested)
    IN  [k \in 1..Len(entries) |-> Request(entries[k])]

-----------------------------------------------------------------------------
(* InputSection: the client profile and the document import *)

\* PREFECTURES, each name as the code units of its characters, in the order
\* of the source: Hokkaido, Aomori, ..., Tokyo (13th), ..., Kyoto (26th), ...,
\* Okinawa.
PREFECTURES ==
    << <<21271, 28023, 36947>>,
       <<38738, 26862, 30476>>,
       <<23721, 25163, 30476>>,
       <<23470, 22478, 30476>>,
       <<31179, 30000, 30476>>,
       <<23665, 24418, 30476>>,
       <<31119, 23798, 30476>>,
       <<33576, 22478, 30476>>,
       <<26627, 26408, 30476>>,
       <<32676, 39340, 30476>>,
       <<22524, 29577, 30476>>,
       <<21315, 33865, 30476>>,
       <<26481, 20140, 37117>>,
       <<31070, 22856, 24029, 30476>>,
       <<26032, 28511, 30476>>,
       <<23500, 23665, 30476>>,
       <<30707, 24029, 30476>>,
       <<31119, 20117, 30476>>,
       <<23665, 26792, 30476>>,
       <<38263, 37326, 30476>>,
       <<23696, 38428, 30476>>,
       <<38745, 23713, 30476>>,
       <<24859, 30693, 30476>>,
       <<19977, 37325, 30476>>,
       <<28363, 36032, 30476>>,
       <<20140, 37117, 24220>>,
       <<22823, 38442, 24220>>,
       <<20853, 24235, 30476>>,
       <<22856, 33391, 30476>>,
       <<21644, 27468, 23665, 30476>>,
       <<40165, 21462, 30476>>,
       <<23798, 26681, 30476>>,
       <<23713, 23665, 30476>>,
       <<24195, 23798, 30476>>,
       <<23665, 21475, 30476>>,
       <<24499, 23798, 30476>>,
       <<39321, 24029, 30476>>,
       <<24859, 23195, 30476>>,
       <<39640, 30693, 30476>>,
       <<31119, 23713, 30476>>,
       <<20304, 36032, 30476>>,
       <<38263, 23822, 30476>>,
       <<29066, 26412, 30476>>,
       <<22823, 20998, 30476>>,
       <<23470, 23822, 30476>>,
       <<40575, 20816, 23798, 30476>>,
       <<27798, 32260, 30476>> >>

\* FAMILY_OPTIONS, in the order of the source: single, single (with
\* children), married (no children), married (with children), married
\* (children independent), elderly couple only, two-household home, other.
FAMILY_OPTIONS ==
    << <<29420, 36523>>,
       <<29420, 36523, 32, 40, 23376, 20379, 12354, 12426, 41>>,
       <<26082, 23130, 32, 40, 23376, 20379, 12394, 12375, 41>>,
       <<26082, 23130, 32, 40, 23376, 20379, 12354, 12426, 41>>,
       <<26082, 23130, 32, 40, 23376, 20379, 29420, 31435, 28168, 41>>,
       <<39640, 40802, 22827, 23142, 12398, 12415>>,
       <<20108, 19990, 24111, 21516, 23621>>,
       <<12381, 12398, 20182>> >>

\* The initial profile: age 50, male, Tokyo, medium risk, medium horizon,
\* "preserve and grow moderately", married with children.
InitialProfile ==
    [age |-> 50, gender |-> "male", region |-> PREFECTURES[13],
     riskTolerance |-> "medium (balanced)", investmentHorizon |-> "medium (3-10 years)",
     goals |-> "preservation and moderate growth",
     familyStructure |-> FAMILY_OPTIONS[4]]

\* haystack.includes(needle), on texts given by their code units.
IncludesText(haystack, needle) ==
    \E start \in 0..(Len(haystack) - Len(needle)) :
        SubSeq(haystack, start + 1, start + Len(needle)) = needle

\* Array.prototype.find: the first element of list that satisfies Test,
\* <<>> (undefined) when none does.
Find(list, Test(_)) ==
    LET hits == {k \in 1..Len(list) : Test(list[k])}
    IN  IF hits = {} THEN <<>>
        ELSE list[CHOOSE k \in hits : \A j \in hits : k <= j]

\* PREFECTURES.find(pref => p.region.includes(pref) || pref.includes(p.region))
\* and newProfile.region = match || p.region.
regionOf(hint) ==
    LET Matches(pref) == IncludesText(hint, pref) \/ IncludesText(pref, hint)
        match == Find(PREFECTURES, Matches)
    IN  IF match # <<>> THEN match ELSE hint

\* FAMILY_OPTIONS.find(f => p.familyStructure.includes(f)) and
\* newProfile.familyStructure = match || p.familyStructure.
familyStructureOf(hint) ==
    LET Matches(f) == IncludesText(hint, f)
        match == Find(FAMILY_OPTIONS, Matches)
    IN  IF match # <<>> THEN match ELSE hint

\* The region hints of the imported documents: Tokyo, Kyoto, Osaka and
\* Hokkaido without the last character, a ward of Tokyo, and "Mars".
HintTokyo == <<26481, 20140>>
HintKyoto == <<20140, 37117>>
HintOsaka == <<22823, 38442>>
HintHokkaido == <<21271, 28023>>
HintMinatoWard == <<26481, 20140, 37117, 28207, 21306>>
HintMars == <<77, 97, 114, 115>>
RegionHints == {HintTokyo, HintKyoto, HintOsaka, HintHokkaido, HintMinatoWard, HintMars}

\* The profile objects of the imported documents.  A property the document
\* does not carry is no key of the record.
FullHints ==
    [age |-> 40, gender |-> "female", riskTolerance |-> "high", goals |-> "retirement",
     familyStructure |-> <<26082, 23130>>]
ProfileHints ==
    {[age |-> 0, gender |-> "", goals |-> "education"]}
    \cup {Merge(FullHints, [region |-> r]) : r \in RegionHints}

\* The assets of the imported documents.
StatementAssetA ==
    [name |-> "Toyota", code |-> "7203", type |-> "Stock", quantity |-> 100,
     amount |-> 300, profitLoss |-> 0 - 20, currency |-> "JPY"]
StatementAssetB ==
    [name |-> "US Treasury", code |-> "", type |-> "Bond", quantity |-> 1,
     amount |-> 0, profitLoss |-> 40, currency |-> "USD"]

\* The JSON values the parse model returns.  The prompt asks for
\* { "profile": {...}, "assets": [...] }; the ParseResult interface names
\* the profile extractedProfile; a document may carry either, both or none.
ParsedDocuments ==
    { [kind |-> "null"],
      [kind |-> "object"],
      [kind |-> "object", assets |-> <<>>],
      [kind |-> "object", assets |-> <<StatementAssetA, StatementAssetB>>],
      [kind |-> "object", profile |-> FullHints, assets |-> <<StatementAssetA>>],
      [kind |-> "object", extractedProfile |-> FullHints, assets |-> <<StatementAssetA>>],
      [kind |-> "object", extractedProfile |-> FullHints, profile |-> FullHints,
       assets |-> <<>>] }
    \cup { [kind |-> "object", extractedProfile |-> h, profile |-> h,
            assets |-> <<StatementAssetB>>] : h \in ProfileHints }

\* The texts of the parse model's responses: no text, the empty text, prose,
\* and a JSON text, bare or inside a Markdown fence (three backquotes, with
\* or without the word json).
ParseTexts ==
    { [kind |-> "undefined"], [kind |-> "empty"], [kind |-> "prose"] }
    \cup { [kind |-> "json", fence |-> "", value |-> v] : v \in ParsedDocuments }
    \cup { [kind |-> "json", fence |-> f, value |-> [kind |-> "object", assets |-> <<>>]] :
            f \in {"json fence", "bare fence"} }

\* text.trim(), then the leading and the trailing fence removed.
Unfenced(text) == IF text.kind = "json" THEN [text EXCEPT !.fence = ""] ELSE text

\* JSON.parse of a response text of the parse model.
JSONparseDocument(text) ==
    IF text.kind = "json" /\ text.fence = ""
    THEN [ok |-> TRUE, value |-> text.value]
    ELSE [ok |-> FALSE, error |-> SyntaxError]

EmptyParseResult == [kind |-> "object", assets |-> <<>>]

\* How the generateWithRetry call of parsePortfolioDocument ended.
ParseCallOutcomes ==
    {[st |-> "thrown", text |-> [kind |-> "undefined"]]}
    \cup {[st |-> "returned", text |-> t] : t \in ParseTexts}

\* parsePortfolioDocument(base64Data, mimeType), from the end of its call on.
parsePortfolioDocument(r) ==
    IF r.st = "thrown" THEN EmptyParseResult
    ELSE IF r.text.kind \in {"undefined", "empty"} THEN EmptyParseResult
    ELSE LET parsed == JSONparseDocument(Unfenced(r.text))
         IN  IF parsed.ok THEN parsed.value ELSE EmptyParseResult

\* A property of a JSON object that is present and truthy.
HasNumber(o, key) == key \in DOMAIN o /\ o[key] # 0
HasString(o, key) == key \in DOMAIN o /\ o[key] # ""
HasText(o, key) == key \in DOMAIN o /\ o[key] # <<>>

ImportedFileName == "statement.pdf"
UnreadableNotice == "No asset information could be read."
UploadFailedNotice == "The file could not be analysed."

\* `imported-${Date.now()}-${index}`
ImportedId(n, index) == [prefix |-> "imported", n |-> n, index |-> index]

\* extractedAssets.map((a, index) => ({ ...a, id, description }))
newAssetsWithIds(extractedAssets, clock) ==
    [k \in 1..Len(extractedAssets) |->
        Merge(extractedAssets[k],
              [id |-> ImportedId(clock, k - 1),
               description |-> "Imported from " \o ImportedFileName])]

\* parseResult.assets || []
extractedAssetsOf(parseResult) ==
    IF "assets" \in DOMAIN parseResult THEN parseResult.assets ELSE <<>>

\* The profile fields the updater passed to setProfile returns.
newProfileOf(prev, parseResult) ==
    IF "extractedProfile" \in DOMAIN parseResult /\ "profile" \in DOMAIN parseResult
    THEN LET p == parseResult.profile
         IN  [age |-> IF HasNumber(p, "age") THEN p.age ELSE prev.age,
              gender |-> IF HasString(p, "gender") THEN p.gender ELSE prev.gender,
              region |-> IF HasText(p, "region") THEN regionOf(p.region) ELSE prev.region,
              familyStructure |->
                  IF HasText(p, "familyStructure")
                  THEN familyStructureOf(p.familyStructure) ELSE prev.familyStructure,
              riskTolerance |->
                  IF HasString(p, "riskTolerance") THEN p.riskTolerance
                  ELSE prev.riskTolerance,
              goals |-> IF HasString(p, "goals") THEN p.goals ELSE prev.goals,
              investmentHorizon |-> prev.investmentHorizon]
    ELSE prev

NoUpload == "none"

otherThanImport ==
    <<svc, pipelineVars, rebalanceVars, call, now, amountInput, settings, editorVars, appVars>>

\* processFile(file) up to its first await (a file chosen or dropped).
processFile ==
    /\ upload = NoUpload
    /\ upload' = "pending"
    /\ isUploading' = TRUE
    /\ notices' = <<>>
    /\ UNCHANGED <<profile, currentHoldings, newHolding>>
    /\ UNCHANGED otherThanImport

\* fileToBase64 rejects: the catch and the finally block of processFile.
FileReadRejects ==
    /\ upload = "pending"
    /\ notices' = Append(notices, UploadFailedNotice)
    /\ isUploading' = FALSE
    /\ upload' = NoUpload
    /\ UNCHANGED <<profile, currentHoldings, newHolding>>
    /\ UNCHANGED otherThanImport

\* The call of parsePortfolioDocument ended as r: the rest of processFile.
\* Reading assets of the JSON value null throws, which the catch block takes.
ParseSettlesWith(r) ==
    /\ upload = "pending"
    /\ LET parseResult == parsePortfolioDocument(r)
       IN  IF parseResult.kind = "null"
           THEN /\ notices' = Append(notices, UploadFailedNotice)
                /\ UNCHANGED <<profile, currentHoldings>>
           ELSE LET added == newAssetsWithIds(extractedAssetsOf(parseResult), now)
                IN  /\ Len(currentHoldings) + Len(added) <= MaxLedger
                    /\ notices' = IF Len(added) = 0
                                  THEN Append(notices, UnreadableNotice)
                                  ELSE notices
                    /\ profile' = newProfileOf(profile, parseResult)
                    /\ currentHoldings' = currentHoldings \o added
    /\ isUploading' = FALSE
    /\ upload' = NoUpload
    /\ UNCHANGED newHolding
    /\ UNCHANGED otherThanImport

ParseSettles == \E r \in ParseCallOutcomes : ParseSettlesWith(r)

\* The responses that carry a JSON document laid out as the prompt asks
\* (profile and assets) or as ParseResult declares (extractedProfile and
\* assets), not both.
StatementOutcomes ==
    {r \in ParseCallOutcomes :
        /\ r.st = "returned"
        /\ r.text.kind = "json"
        /\ ~({"extractedProfile", "profile"} \subseteq DOMAIN r.text.value)}

\* The import of such a document.
StatementParsed == \E r \in StatementOutcomes : ParseSettlesWith(r)

-----------------------------------------------------------------------------
(* InputSection: the totals row and the return percentages *)

\* h.amount || 0, h.profitLoss || 0
NumberOrZero(h, field) == IF field \in DOMAIN h THEN h[field] ELSE 0

\* A variant of the reduce below that leaves out the last entry.
reduceSum_SkipLast(holdings, field) ==
    LET RECURSIVE Reduce(_, _)
        Reduce(sum, k) ==
            IF k >= Len(holdings) THEN sum
            ELSE Reduce(sum + NumberOrZero(holdings[k], field), k + 1)
    IN  Reduce(0, 1)

\* profile.currentHoldings.reduce((sum, h) => sum + (h[field] || 0), 0)
reduceSum(holdings, field) ==
    LET RECURSIVE Reduce(_, _)
        Reduce(sum, k) ==
            IF k > Len(holdings) THEN sum
            ELSE Reduce(sum + NumberOrZero(holdings[k], field), k + 1)
    IN  Reduce(0, 1)

totalAmount == reduceSum(currentHoldings, "amount")
totalProfitLoss == reduceSum(currentHoldings, "profitLoss")
totalInvested == totalAmount - totalProfitLoss

\* A percentage is kept as the fraction num / den, den > 0.
Fraction(num, den) == [num |-> num, den |-> den]
ZeroPct == Fraction(0, 1)

\* A variant of the ternary below that tests invested against 0 with !==.
returnPctOf_NonZeroBase(profitLoss, invested) ==
    IF invested # 0
    THEN IF invested > 0 THEN Fraction(profitLoss * 100, invested)
         ELSE Fraction(0 - profitLoss * 100, 0 - invested)
    ELSE ZeroPct

\* invested > 0 ? (profitLoss / invested) * 100 : 0
returnPctOf(profitLoss, invested) ==
    IF invested > 0 THEN Fraction(profitLoss * 100, invested) ELSE ZeroPct

totalReturnPct == returnPctOf(totalProfitLoss, totalInvested)

\* The invested base and the return percentage shown in a holdings row.
rowInvested(h) == NumberOrZero(h, "amount") - NumberOrZero(h, "profitLoss")
rowReturnPct(h) == returnPctOf(NumberOrZero(h, "profitLoss"), rowInvested(h))

-----------------------------------------------------------------------------
(* SlideRenderer: the two sides of a RebalanceProposal slide *)

\* The code units of the sell marker and of the buy marker a label carries.
SellMarker == <<22770, 21364>>
BuyMarker == <<36092, 20837>>

\* value1.startsWith('-')
StartsWithMinus(text) == text # <<>> /\ text[1] = CharMinus

\* r.label.includes(sell marker) || (r.value1 && r.value1.startsWith('-'))
IsSellRow(r) ==
    IncludesText(r.label, SellMarker) \/ (HasText(r, "value1") /\ StartsWithMinus(r.value1))

\* r.label.includes(buy marker) || (r.value1 && !r.value1.startsWith('-'))
IsBuyRow(r) ==
    IncludesText(r.label, BuyMarker) \/ (HasText(r, "value1") /\ ~StartsWithMinus(r.value1))

\* The rows listed on the sell side: slide.tableData?.filter(...).
sellRows(slide) ==
    IF "tableData" \in DOMAIN slide THEN Filter(slide.tableData, IsSellRow) ELSE <<>>

\* Whether the "nothing to sell" line shows: !slide.tableData?.some(...).
nothingToSellShown(slide) ==
    ~("tableData" \in DOMAIN slide
      /\ \E k \in 1..Len(slide.tableData) :
            \/ IncludesText(slide.tableData[k].label, SellMarker)
            \/ ("value1" \in DOMAIN slide.tableData[k]
                /\ StartsWithMinus(slide.tableData[k].value1)))

\* The rows listed on the buy side.
buyRows(slide) ==
    IF "tableData" \in DOMAIN slide THEN Filter(slide.tableData, IsBuyRow) ELSE <<>>

\* The rows of the generated tables: "Toyota" 100, "Toyota" with no value1,
\* a sell-marked "Sony" 50, "Sony" -50, a buy-marked "Apple" with no value1,
\* "Apple" with the empty value1, and a row of 100 with no label (the
\* response schema requires no property of a row).
TableRows ==
    { [label |-> <<84, 111, 121, 111, 116, 97>>, value1 |-> <<49, 48, 48>>],
      [label |-> <<84, 111, 121, 111, 116, 97>>],
      [label |-> <<22770, 21364, 58, 32, 83, 111, 110, 121>>, value1 |-> <<53, 48>>],
      [label |-> <<83, 111, 110, 121>>, value1 |-> <<45, 53, 48>>],
      [label |-> <<36092, 20837, 58, 32, 65, 112, 112, 108, 101>>],
      [label |-> <<65, 112, 112, 108, 101>>, value1 |-> <<>>],
      [value1 |-> <<49, 48, 48>>] }

\* The tables of at most MaxRows rows.
Tables == UNION {[1..n -> TableRows] : n \in 0..MaxRows}

\* A generated document whose second slide carries this table.
DeckWithTable(table) ==
    [kind |-> "object", title |-> "Proposal", clientName |-> "Yamada",
     slides |-> <<[id |-> "s1", type |-> "Title", title |-> "Cover"],
                  [id |-> "s2", type |-> "RebalanceProposal", title |-> "Plan",
                   bodyText |-> "Sell A, buy B", tableData |-> table]>>]

\* The words the ScenarioAnalysis chart looks for in the name of a point.
Bull == <<66, 117, 108, 108>>
Bear == <<66, 101, 97, 114>>

\* The points of the generated charts: "Bull" 12, "Base" 5, "Bear" -8 and a
\* point of 3 with no name (the schema requires no property of a point).
ChartPoints ==
    { [name |-> Bull, value |-> 12],
      [name |-> <<66, 97, 115, 101>>, value |-> 5],
      [name |-> Bear, value |-> 0 - 8],
      [value |-> 3] }

\* The charts of at most MaxRows points.
Charts == UNION {[1..n -> ChartPoints] : n \in 0..MaxRows}

\* A generated document whose second slide carries this chart.
DeckWithChart(chart) ==
    [kind |-> "object", title |-> "Proposal", clientName |-> "Yamada",
     slides |-> <<[id |-> "s1", type |-> "Title", title |-> "Cover"],
                  [id |-> "s2", type |-> "ScenarioAnalysis", title |-> "Scenarios",
                   chartData |-> chart]>>]

\* The documents generateInvestmentProposal hands to the editor.
ArrivingDecks ==
    {getMockProposal, GeneratedDeck}
    \cup {DeckWithTable(t) : t \in Tables}
    \cup {DeckWithChart(c) : c \in Charts}

\* What computing the derived shape of a slide ends in.
Shaped(v) == [kind |-> "returned", value |-> v]
ShapingThrew(e) == [kind |-> "thrown", error |-> e]

\* The cells of the ScenarioAnalysis bar: slide.chartData?.map(entry =>
\* entry.name.includes('Bull') ? green : entry.name.includes('Bear') ? red : grey);
\* entry.name.includes of a point with no name is a TypeError.
scenarioCells(slide) ==
    IF "chartData" \notin DOMAIN slide THEN Shaped(<<>>)
    ELSE IF \E k \in 1..Len(slide.chartData) : "name" \notin DOMAIN slide.chartData[k]
    THEN ShapingThrew(TypeError)
    ELSE Shaped([k \in 1..Len(slide.chartData) |->
                    IF IncludesText(slide.chartData[k].name, Bull) THEN "#4ade80"
                    ELSE IF IncludesText(slide.chartData[k].name, Bear) THEN "#f87171"
                    ELSE "#94a3b8"])

\* The two sides of a RebalanceProposal slide; r.label.includes of a row
\* with no label is a TypeError, and the sell filter calls it on every row.
rebalanceSides(slide) ==
    IF "tableData" \in DOMAIN slide
       /\ \E k \in 1..Len(slide.tableData) : "label" \notin DOMAIN slide.tableData[k]
    THEN ShapingThrew(TypeError)
    ELSE Shaped([sell |-> sellRows(slide), nothingToSell |-> nothingToSellShown(slide),
                 buy |-> buyRows(slide)])

\* renderContent(): the derived shape of the slide, by its type.
renderContent(slide) ==
    CASE slide.type = "ScenarioAnalysis" -> scenarioCells(slide)
      [] slide.type = "RebalanceProposal" -> rebalanceSides(slide)
      [] OTHER -> Shaped(<<>>)

-----------------------------------------------------------------------------
(* SlideEditor *)

\* useState<PresentationData | null>(null)
NoData == [kind |-> "null"]
NoRewrite == [st |-> "none"]

\* How the generateWithRetry call of aiTextEdit ended.
RewriteOutcomes ==
    {[st |-> "thrown", text |-> UNDEFINED]}
    \cup {[st |-> "returned", text |-> t] : t \in {UNDEFINED, "", "Rewritten"}}

\* aiTextEdit(currentText, instruction), from the end of its call on.
aiTextEdit(currentText, r) ==
    IF r.st = "thrown" THEN currentText
    ELSE IF Falsy(r.text) THEN currentText
    ELSE r.text

\* currentSlide.bodyText || ""
bodyTextOrEmpty(slide) ==
    IF "bodyText" \in DOMAIN slide /\ ~Falsy(slide.bodyText) THEN slide.bodyText ELSE ""

otherThanEditor ==
    <<svc, pipelineVars, rebalanceVars, inputVars, call, now, amountInput, formVars,
      appVars>>

\* App.handleRebalanceComplete after its await: setPresentationData(data)
\* and setStep('editor'), which mounts SlideEditor.
setPresentationData ==
    /\ data = NoData
    /\ \E deck \in ArrivingDecks : data' = deck
    /\ step' = "editor"
    /\ currentSlideIndex' = 0
    /\ chatInput' = ""
    /\ isProcessing' = FALSE
    /\ rewrite' = NoRewrite
    /\ UNCHANGED <<svc, pipelineVars, rebalanceVars, inputVars, call, now, amountInput,
                   formVars>>
    /\ UNCHANGED <<appProfile, appSettings, appProposedAssets, isGenerating, reportCalls>>

\* A thumbnail of the slide list.
setCurrentSlideIndex ==
    /\ data # NoData
    /\ \E idx \in 0..(Len(data.slides) - 1) : currentSlideIndex' = idx
    /\ UNCHANGED <<data, chatInput, isProcessing, rewrite>>
    /\ UNCHANGED otherThanEditor

\* The instruction typed into the chat box.
setChatInput ==
    /\ data # NoData
    /\ \E text \in {"", "Make it shorter"} : chatInput' = text
    /\ UNCHANGED <<data, currentSlideIndex, isProcessing, rewrite>>
    /\ UNCHANGED otherThanEditor

\* handleChatSubmit() up to its await; the send button is disabled while
\* isProcessing.  The invocation keeps the data, the index and the slide of
\* the render it was created in.
handleChatSubmit ==
    /\ data # NoData
    /\ ~isProcessing
    /\ chatInput # ""
    /\ isProcessing' = TRUE
    /\ rewrite' = [st |-> "pending", data |-> data, currentSlideIndex |-> currentSlideIndex]
    /\ UNCHANGED <<data, currentSlideIndex, chatInput>>
    /\ UNCHANGED otherThanEditor

\* A variant of the copy below that pushes the slide instead of assigning it.
SlidesWith_Push(slides, index, slide) == Append(slides, slide)

\* const newSlides = [...data.slides]; newSlides[currentSlideIndex] = slide,
\* for an index within the array.
SlidesWith(slides, index, slide) == [slides EXCEPT ![index + 1] = slide]

\* exportToPPT(data): the slides added to the deck, one pptx.addSlide per
\* element of data.slides.forEach, each with the title of its slide.
exportToPPT(document) ==
    [k \in 1..Len(document.slides) |->
        [masterName |-> "MASTER_SLIDE", title |-> document.slides[k].title]]

\* The rest of handleChatSubmit, once the call of aiTextEdit ended as r.
RewriteSettlesWith(r) ==
    /\ rewrite.st = "pending"
    /\ LET currentSlide == rewrite.data.slides[rewrite.currentSlideIndex + 1]
           updatedText == aiTextEdit(bodyTextOrEmpty(currentSlide), r)
           newSlides == SlidesWith(rewrite.data.slides, rewrite.currentSlideIndex,
                                   Merge(currentSlide, [bodyText |-> updatedText]))
       IN  data' = [rewrite.data EXCEPT !.slides = newSlides]
    /\ chatInput' = ""
    /\ isProcessing' = FALSE
    /\ rewrite' = NoRewrite
    /\ UNCHANGED currentSlideIndex
    /\ UNCHANGED otherThanEditor

RewriteSettles == \E r \in RewriteOutcomes : RewriteSettlesWith(r)

-----------------------------------------------------------------------------
(* App: the wizard *)

\* The documents generateInvestmentProposal resolves to: what the generation
\* phase settles with for each response text, the fallback document included.
\* The promise is never rejected.
ReturnedDocuments ==
    {generationSettle(GwrReturn(GwrStart(Retries(svc), InitialDelay(svc)),
                                Response(t))).value : t \in GenerationTexts}

\* {step === 'input' && <InputSection .../>}
InputSectionShown == step = "input"

\* {step === 'rebalance' && profile && settings && <RebalanceSection .../>}
RebalanceSectionShown ==
    step = "rebalance" /\ appProfile # NoData /\ appSettings # NoData

\* {step === 'editor' && presentationData && <SlideEditor .../>}, for a step
\* and a document; an object and an array are truthy, null is not.
SlideEditorShown(st, document) == st = "editor" /\ document.kind # "null"

\* SlideEditor renders: data.slides[currentSlideIndex] is a slide.  With no
\* slides property, or no slide at the index, the render throws and nothing
\* of the editor is on the screen.
SlideEditorRenders ==
    /\ SlideEditorShown(step, data)
    /\ "slides" \in DOMAIN data
    /\ currentSlideIndex < Len(data.slides)

\* RebalanceSection mounts: its useState initializers (App passes no
\* initialProposedAssets, so the ledger starts from initialProposedAssets || [])
\* and the mount effect, fetchRecs() up to its await.
RebalanceSectionMounts ==
    /\ recommendations' = <<>>
    /\ proposedAssets' = <<>>
    /\ loadingRecs' = TRUE
    /\ error' = NULL
    /\ recsOutcome' = Pending
    /\ recsCallFailed' = FALSE
    /\ call' = [call EXCEPT !["recommendations"] = GwrStart(Retries(svc), InitialDelay(svc))]

\* The next button of InputSection, disabled while the holdings are empty:
\* onNext(profile, settings), that is App.handleInputComplete.
handleInputComplete ==
    /\ InputSectionShown
    /\ Len(currentHoldings) # 0
    /\ appProfile' = Merge(profile, [currentHoldings |-> currentHoldings])
    /\ appSettings' = settings
    /\ step' = "rebalance"
    /\ RebalanceSectionMounts
    /\ UNCHANGED <<appProposedAssets, isGenerating, reportCalls>>
    /\ UNCHANGED <<svc, pipelineVars, inputVars, now, amountInput, formVars, editorVars>>

\* The back button of RebalanceSection: onBack={() => setStep('input')}.
\* InputSection mounts with initialProfile and initialSettings.
rebalanceBack ==
    /\ RebalanceSectionShown
    /\ step' = "input"
    /\ profile' = [k \in (DOMAIN appProfile) \ {"currentHoldings"} |-> appProfile[k]]
    /\ currentHoldings' = appProfile.currentHoldings
    /\ settings' = appSettings
    /\ newHolding' = EmptyHolding
    /\ isUploading' = FALSE
    /\ upload' = NoUpload
    /\ notices' = <<>>
    /\ UNCHANGED <<appProfile, appSettings, appProposedAssets, isGenerating, reportCalls>>
    /\ UNCHANGED <<svc, pipelineVars, rebalanceVars, call, now, amountInput, editorVars>>

\* A variant of the generate button that is not disabled while isGenerating.
handleRebalanceComplete_NotDisabled ==
    /\ RebalanceSectionShown
    /\ Len(proposedAssets) # 0
    /\ appProposedAssets' = proposedAssets
    /\ isGenerating' = TRUE
    /\ reportCalls' = Append(reportCalls, [assets |-> proposedAssets])
    /\ UNCHANGED <<step, appProfile, appSettings>>
    /\ UNCHANGED <<svc, pipelineVars, rebalanceVars, inputVars, call, now, amountInput,
                   formVars, editorVars>>

\* The generate button of RebalanceSection, disabled while isGenerating or
\* with an empty ledger: onGenerateReport(proposedAssets), that is
\* App.handleRebalanceComplete up to its await.
handleRebalanceComplete ==
    /\ RebalanceSectionShown
    /\ ~isGenerating
    /\ Len(proposedAssets) # 0
    /\ appProposedAssets' = proposedAssets
    /\ isGenerating' = TRUE
    /\ reportCalls' = Append(reportCalls, [assets |-> proposedAssets])
    /\ UNCHANGED <<step, appProfile, appSettings>>
    /\ UNCHANGED <<svc, pipelineVars, rebalanceVars, inputVars, call, now, amountInput,
                   formVars, editorVars>>

\* reportCalls without its i-th entry.
WithoutCall(calls, i) ==
    [k \in 1..(Len(calls) - 1) |-> IF k < i THEN calls[k] ELSE calls[k + 1]]

\* The rest of handleRebalanceComplete, once generateInvestmentProposal
\* resolved: setPresentationData(data), setStep('editor') and the finally
\* block.  SlideEditor mounts when it was not on display.
ReportSettles ==
    /\ \E i \in 1..Len(reportCalls), document \in ReturnedDocuments :
         /\ data' = document
         /\ reportCalls' = WithoutCall(reportCalls, i)
         /\ IF ~SlideEditorShown(step, data) /\ SlideEditorShown("editor", document)
            THEN /\ currentSlideIndex' = 0
                 /\ chatInput' = ""
                 /\ isProcessing' = FALSE
            ELSE UNCHANGED <<currentSlideIndex, chatInput, isProcessing>>
    /\ step' = "editor"
    /\ isGenerating' = FALSE
    /\ UNCHANGED <<rewrite, appProfile, appSettings, appProposedAssets>>
    /\ UNCHANGED <<svc, pipelineVars, rebalanceVars, inputVars, call, now, amountInput,
                   formVars>>

\* The back button of SlideEditor: onBack={() => setStep('rebalance')}.
\* RebalanceSection mounts.
editorBack ==
    /\ SlideEditorRenders
    /\ step' = "rebalance"
    /\ RebalanceSectionMounts
    /\ UNCHANGED <<appProfile, appSettings, appProposedAssets, isGenerating, reportCalls>>
    /\ UNCHANGED <<svc, pipelineVars, inputVars, now, amountInput, formVars, editorVars>>

\* The steps of the sections, each while its section is on display.
inputAssetSearch == InputSectionShown /\ handleAssetSearch
inputAddHolding == InputSectionShown /\ addHolding
rebalanceSelectManualAsset == RebalanceSectionShown /\ selectManualAsset
rebalanceRemoveProposed == RebalanceSectionShown /\ removeProposed
editorSelectSlide == SlideEditorRenders /\ setCurrentSlideIndex

-----------------------------------------------------------------------------
(* Specifications *)

Init ==
    /\ svc \in Variants
    /\ pc = "idle"
    /\ interaction = "none"
    /\ deepResearchReport = ""
    /\ researchEnd = "none"
    /\ researchContext = ""
    /\ call = [c \in Callers |-> GwrIdle]
    /\ outcome = Unsettled
    /\ recommendations = <<>>
    /\ proposedAssets = <<>>
    /\ loadingRecs = FALSE
    /\ error = NULL
    /\ recsOutcome = Unsettled
    /\ recsCallFailed = FALSE
    /\ currentHoldings = <<>>
    /\ newHolding = EmptyHolding
    /\ now = 0
    /\ amountInput = NoAmountInput
    /\ profile = InitialProfile
    /\ settings = InitialSettings
    /\ isUploading = FALSE
    /\ upload = NoUpload
    /\ notices = <<>>
    /\ data = NoData
    /\ currentSlideIndex = 0
    /\ chatInput = ""
    /\ isProcessing = FALSE
    /\ rewrite = NoRewrite
    /\ step = "input"
    /\ appProfile = NoData
    /\ appSettings = NoData
    /\ appProposedAssets = <<>>
    /\ isGenerating = FALSE
    /\ reportCalls = <<>>

\* The report assembly pipeline.
NextProposal ==
    \/ InvokeProposal
    \/ InteractionCreateResolves
    \/ InteractionRejects
    \/ PollTimerFires
    \/ InteractionGetResolves
    \/ ResearchResolves
    \/ ResearchRejects
    \/ ResearchBackoffFires
    \/ GenerationResolves
    \/ GenerationRejects
    \/ GenerationBackoffFires

SpecProposal == Init /\ [][NextProposal]_vars

\* The rebalance step: the recommendation fetch and the proposed-assets ledger.
NextRebalance ==
    \/ fetchRecs
    \/ RecommendationsResolves
    \/ RecommendationsRejects
    \/ RecommendationsBackoffFires
    \/ addToProposal
    \/ selectManualAsset
    \/ removeProposed
    \/ Tick

SpecRebalance == Init /\ [][NextRebalance]_vars

\* The two ledgers: the proposed assets and the holdings.
NextLedgers ==
    \/ fetchRecs
    \/ RecommendationsResolves
    \/ RecommendationsRejects
    \/ RecommendationsBackoffFires
    \/ addToProposal
    \/ selectManualAsset
    \/ removeProposed
    \/ handleAssetSearch
    \/ addHolding
    \/ removeHolding
    \/ Tick

SpecLedgers == Init /\ [][NextLedgers]_vars

\* The amount fields of the two ledgers.
NextAmounts ==
    \/ selectManualAsset
    \/ handleAssetSearch
    \/ addHolding
    \/ updateProposedAmount
    \/ handleAmountChange

SpecAmounts == Init /\ [][NextAmounts]_vars

\* The proposal settings panel.
NextSettings ==
    \/ handleProposalCountChange
    \/ toggleProposalType
    \/ toggleSubCategory

SpecSettings == Init /\ [][NextSettings]_vars

\* The holdings ledger with its amount fields and the document import.
NextHoldings ==
    \/ handleAssetSearch
    \/ addHolding
    \/ handleAmountChange
    \/ removeHolding
    \/ processFile
    \/ StatementParsed

\* InputSection imports parsePortfolioDocument from '../services/geminiService';
\* no step of the holdings table reads anything else of the service module.
InitHoldings == Init /\ svc = "services"

SpecHoldings == InitHoldings /\ [][NextHoldings]_vars

\* The document import.
NextImport ==
    \/ processFile
    \/ FileReadRejects
    \/ ParseSettles
    \/ removeHolding
    \/ Tick

SpecImport == Init /\ [][NextImport]_vars

\* The slide editor.
NextEditor ==
    \/ setPresentationData
    \/ setCurrentSlideIndex
    \/ setChatInput
    \/ handleChatSubmit
    \/ RewriteSettles

SpecEditor == Init /\ [][NextEditor]_vars

\* The wizard: the three steps, the report call and the navigation.
NextWizard ==
    \/ inputAssetSearch
    \/ inputAddHolding
    \/ handleInputComplete
    \/ rebalanceBack
    \/ rebalanceSelectManualAsset
    \/ rebalanceRemoveProposed
    \/ handleRebalanceComplete
    \/ ReportSettles
    \/ editorSelectSlide
    \/ editorBack

SpecWizard == Init /\ [][NextWizard]_vars

Next ==
    \/ NextProposal
    \/ NextLedgers
    \/ updateProposedAmount
    \/ handleAmountChange
    \/ NextSettings
    \/ processFile
    \/ FileReadRejects
    \/ ParseSettles
    \/ NextEditor
    \/ NextWizard

Spec == Init /\ [][Next]_vars

\* The pipeline where every external call settles and every timer fires.
SpecProposalFair ==
    /\ Init
    /\ [][NextProposal]_vars
    /\ WF_vars(InteractionCreateResolves \/ InteractionRejects \/ InteractionGetResolves)
    /\ WF_vars(PollTimerFires)
    /\ WF_vars(ResearchResolves \/ ResearchRejects)
    /\ WF_vars(ResearchBackoffFires)
    /\ WF_vars(GenerationResolves \/ GenerationRejects)
    /\ WF_vars(GenerationBackoffFires)

-----------------------------------------------------------------------------
(* Properties *)

\* The generation call of this invocation failed: a thrown error (quota
\* retries exhausted included), an empty text, or a text that is no JSON.
GenerationFailed ==
    LET g == call["generation"]
    IN  \/ g.st = "thrown"
        \/ /\ g.st = "returned"
           /\ \/ g.resp.kind # "response"
              \/ Falsy(g.resp.text)
              \/ ~JSONparse(g.resp.text).ok

\* The generation call of this invocation returned a text that parses.
GenerationSucceeded ==
    LET g == call["generation"]
    IN  /\ g.st = "returned"
        /\ g.resp.kind = "response"
        /\ ~Falsy(g.resp.text)
        /\ JSONparse(g.resp.text).ok

\* C1: generateInvestmentProposal never rejects, and whenever its generation
\* call failed it resolves to the fallback document: exactly one slide, of
\* type Title.
C1_FailureYieldsFallback ==
    /\ outcome.kind # "rejected"
    /\ (pc = "done" /\ GenerationFailed) =>
          /\ outcome = Resolved(getMockProposal)
          /\ Len(outcome.value.slides) = 1
          /\ outcome.value.slides[1].type = "Title"

\* The quota retries of the generation call are exhausted and the fallback
\* document is returned.
C1_Witness ==
    /\ pc = "done"
    /\ call["generation"].st = "thrown"
    /\ isQuotaError(call["generation"].err)
    /\ call["generation"].attempts = Retries(svc)
    /\ outcome = Resolved(getMockProposal)

\* C2: whatever way the research phase ended, the generation call is issued,
\* and when it returns a text that parses, generateInvestmentProposal
\* resolves to exactly the parsed value.
C2_ResearchFailureDoesNotCascade ==
    pc = "done" =>
        /\ call["generation"].attempts >= 1
        /\ GenerationSucceeded =>
              outcome = Resolved(JSONparse(call["generation"].resp.text).value)

\* Research ended by an exception and the generated deck is returned as is.
C2_Witness ==
    /\ pc = "done"
    /\ researchEnd = "exception"
    /\ GenerationSucceeded
    /\ outcome = Resolved(GeneratedDeck)
    /\ Len(outcome.value.slides) = 2

\* C3: a generation text that parses to a value that is no PresentationData
\* (not an object, no slides array, an empty slides array) yields the
\* fallback document instead of the parsed value.
C3_MalformedPayloadFallsBack ==
    ( /\ pc = "done"
      /\ GenerationSucceeded
      /\ ~IsPresentationData(JSONparse(call["generation"].resp.text).value) )
    => outcome = Resolved(getMockProposal)

\* C4: every invocation of generateInvestmentProposal eventually ends its
\* research phase and returns a document, whatever the research service
\* reports.
C4_PipelineProceedsPastResearch ==
    (outcome.kind = "pending") ~> (researchEnd # "none" /\ outcome.kind = "resolved")

ResearchInFlight ==
    \/ interaction \in {"creating", "sleeping", "getting"}
    \/ call["research"].st \in {"calling", "waiting"}

GenerationInFlight == call["generation"].st \in {"calling", "waiting"}

\* C5: a generation attempt has been issued only once the research phase has
\* ended, and research and generation are never in flight together.
C5_ResearchPrecedesGeneration ==
    /\ call["generation"].attempts >= 1 => (researchEnd # "none" /\ ~ResearchInFlight)
    /\ ~(ResearchInFlight /\ GenerationInFlight)

\* The generation call is in flight after a completed research.
C5_Witness ==
    /\ call["generation"].st = "calling"
    /\ researchEnd = "completed"
    /\ ~Falsy(deepResearchReport)

\* The waits of n quota retries: initialDelay * 2^(k-1) before the k-th.
ExpectedWaits(n, initialDelay) == [k \in 1..n |-> initialDelay * 2^(k - 1)]

\* C6: in every generateWithRetry call the endpoint is invoked at most
\* `retries` times, the wait before the k-th retry is initialDelay * 2^(k-1),
\* a call whose every attempt failed with a quota signal has invoked the
\* endpoint exactly `retries` times and throws, and a call that returned
\* returns the endpoint's response.
C6_QuotaRetriedWithBackoff ==
    \A c \in Callers :
        LET s == call[c]
        IN  /\ s.attempts <= Retries(svc)
            /\ s.waits = ExpectedWaits(Len(s.waits), InitialDelay(svc))
            /\ s.st \in {"calling", "returned", "thrown"} => Len(s.waits) = s.attempts - 1
            /\ s.st = "waiting" => (Len(s.waits) = s.attempts /\ isQuotaError(s.caught))
            /\ (s.st = "thrown" /\ isQuotaError(s.err)) => s.attempts = Retries(svc)
            /\ s.st = "returned" => s.resp.kind = "response"

\* The services copy gives up after 5 quota failures and 4 doubling waits.
C6_Witness ==
    /\ call["generation"].st = "thrown"
    /\ isQuotaError(call["generation"].err)
    /\ call["generation"].attempts = 5
    /\ call["generation"].waits = <<5000, 10000, 20000, 40000>>

\* C7: once an attempt of a generateWithRetry call failed with an error that
\* is no quota signal, the call has thrown that very error, with no wait set
\* and no attempt made after it.
C7_NonQuotaNotRetried ==
    \A c \in Callers :
        LET s == call[c]
        IN  (s.caught # NoError /\ ~isQuotaError(s.caught)) =>
                /\ s.st = "thrown"
                /\ s.err = s.caught
                /\ Len(s.waits) = s.attempts - 1

\* A non-quota error on the second attempt, with retry budget left.
C7_Witness ==
    /\ call["generation"].st = "thrown"
    /\ ~isQuotaError(call["generation"].err)
    /\ call["generation"].attempts = 2
    /\ call["generation"].attempts < Retries(svc)

\* C8: when the AI call of getAssetRecommendations fails, or its text does
\* not parse, the promise it returned is rejected.
C8_RecommendationFailurePropagates ==
    recsCallFailed => recsOutcome.kind = "rejected"

\* C9: the step of fetchRecs that ends a fetch whose candidate fetch failed
\* leaves the proposed-assets ledger as it was, and ends with error set and
\* loadingRecs false.
C9_FailedFetchKeepsLedgerAndShowsRetry ==
    [][ (loadingRecs /\ ~loadingRecs' /\ recsCallFailed') =>
            (proposedAssets' = proposedAssets /\ error' # NULL /\ loadingRecs' = FALSE) ]_vars

DistinctIds(ledger) ==
    \A i, j \in 1..Len(ledger) : i # j => ledger[i].id # ledger[j].id

\* C10: the entries of the proposed-assets ledger have pairwise distinct ids,
\* and so have the entries of the holdings ledger.
C10_LedgerIdsDistinct ==
    DistinctIds(proposedAssets) /\ DistinctIds(currentHoldings)

\* A text of digits, full-width or standard, in groups set apart by one
\* separator character, the ASCII or the full-width comma.
IsSeparator(c) == c \in {CharComma, FullWidthComma}
IsAnyDigit(c) == IsDigit(c) \/ (c >= FullWidthZero /\ c <= FullWidthNine)
IsGroupedDigits(val) ==
    /\ val # <<>>
    /\ \A k \in 1..Len(val) : IsAnyDigit(val[k]) \/ IsSeparator(val[k])
    /\ IsAnyDigit(val[1]) /\ IsAnyDigit(val[Len(val)])
    /\ \A k \in 1..(Len(val) - 1) : ~(IsSeparator(val[k]) /\ IsSeparator(val[k + 1]))

\* The integer denoted by the digits of val alone, whatever their width.
RECURSIVE DigitsAlone(_)
DigitsAlone(val) ==
    IF val = <<>> THEN 0
    ELSE LET c == val[Len(val)]
             rest == DigitsAlone(SubSeq(val, 1, Len(val) - 1))
         IN  IF IsDigit(c) THEN 10 * rest + (c - CharZero)
             ELSE IF IsAnyDigit(c) THEN 10 * rest + (c - FullWidthZero)
             ELSE rest

\* The ledger an amount input belongs to, after the input was handled.
LedgerOf(input, proposed, holdings) ==
    IF input.target = "proposed" THEN proposed ELSE holdings

\* Every entry of ledger with this id stores value in this field.
Stores(ledger, id, field, value) ==
    \A k \in 1..Len(ledger) : ledger[k].id = id => ledger[k][field] = value

\* C11: when a text of full-width or standard digits grouped by a separator
\* (ASCII or full-width comma) is typed into an amount field, of a holdings
\* row (handleAmountChange) or of a proposed-assets row
\* (updateProposedAmount), the entry stores the integer denoted by the
\* digits alone.
C11_GroupedDigitsNormalized ==
    [][(amountInput'.n # amountInput.n /\ IsGroupedDigits(amountInput'.text))
         => Stores(LedgerOf(amountInput', proposedAssets', currentHoldings'),
                   amountInput'.id, amountInput'.field,
                   DigitsAlone(amountInput'.text))]_vars

\* C12: when the empty text or a bare minus sign is typed into an amount
\* field, of a holdings row or of a proposed-assets row, the entry stores 0.
C12_EmptyOrMinusIsZero ==
    [][(amountInput'.n # amountInput.n /\ amountInput'.text \in {<<>>, <<CharMinus>>})
         => Stores(LedgerOf(amountInput', proposedAssets', currentHoldings'),
                   amountInput'.id, amountInput'.field, 0)]_vars

\* C13: in every reachable settings state and for every type,
\* toggleProposalType leaves proposalDetails of every type as it was, once
\* and twice in a row; switching a checked type off sets its count to 0.
C13_ToggleKeepsSubCategories ==
    \A type \in ProposalTypes :
        LET once == ProposalTypeToggled(settings, type)
            twice == ProposalTypeToggled(once, type)
        IN  /\ once.proposalDetails = settings.proposalDetails
            /\ twice.proposalDetails = settings.proposalDetails
            /\ settings.proposalCounts[type] > 0 => once.proposalCounts[type] = 0
            /\ settings.proposalCounts[type] > 0 => twice.proposalCounts[type] > 0

\* A type with two sub-categories selected was switched off.
C13_Witness ==
    /\ settings.proposalCounts["Stock"] = 0
    /\ Len(settings.proposalDetails["Stock"]) = 2

\* The arithmetic sum of a field over the entries of a ledger.
RECURSIVE SumOf(_, _)
SumOf(ledger, field) ==
    IF ledger = <<>> THEN 0
    ELSE SumOf(SubSeq(ledger, 1, Len(ledger) - 1), field)
         + NumberOrZero(ledger[Len(ledger)], field)

\* C14: whatever was added, updated, removed or imported, the total amount
\* shown equals the sum of the amount fields of the entries now in the
\* holdings ledger, and the total profit/loss the sum of their profitLoss.
C14_TotalsNeverDrift ==
    /\ totalAmount = SumOf(currentHoldings, "amount")
    /\ totalProfitLoss = SumOf(currentHoldings, "profitLoss")

\* Two entries, one of them updated through its amount field, with a
\* non-zero total and a non-zero total profit/loss.
C14_Witness ==
    /\ Len(currentHoldings) = 2
    /\ amountInput.target = "holdings"
    /\ totalAmount # 0
    /\ totalProfitLoss # 0

\* A fraction equals profitLoss / invested * 100.
IsPctOf(pct, profitLoss, invested) ==
    pct.den > 0 /\ pct.num * invested = profitLoss * 100 * pct.den

\* C15: the return percentage, of the totals row and of every holdings
\* row, is exactly 0 when the invested base (amount minus profit/loss) is
\* 0 or less, whatever the profit/loss, and profitLoss / investedBase * 100
\* otherwise.
C15_ReturnPctZeroOnNonPositiveBase ==
    /\ totalInvested <= 0 => totalReturnPct = ZeroPct
    /\ totalInvested > 0 => IsPctOf(totalReturnPct, totalProfitLoss, totalInvested)
    /\ \A k \in 1..Len(currentHoldings) :
          LET h == currentHoldings[k]
          IN  /\ rowInvested(h) <= 0 => rowReturnPct(h) = ZeroPct
              /\ rowInvested(h) > 0 =>
                    IsPctOf(rowReturnPct(h), NumberOrZero(h, "profitLoss"), rowInvested(h))

\* The invested base is negative while the profit is positive; a row has a
\* negative invested base and a loss.
C15_Witness ==
    /\ totalInvested < 0
    /\ totalProfitLoss > 0
    /\ \E k \in 1..Len(currentHoldings) :
          /\ rowInvested(currentHoldings[k]) < 0
          /\ NumberOrZero(currentHoldings[k], "profitLoss") > 0

\* A row that belongs to the sell side by the rule of the normalizer: its
\* label carries the sell marker, or its value1 is negative.
IsMarkedForSale(r) ==
    IncludesText(r.label, SellMarker)
    \/ ("value1" \in DOMAIN r /\ StartsWithMinus(r.value1))

\* C16: for every RebalanceProposal slide of the document shown whose
\* tableData is non-empty and has no row with a negative value1 or a sell
\* marker in its label (rows without value1 included), the sell side lists
\* no row and shows the nothing-to-sell line, and the buy side lists at
\* least one row.
C16_NoSellRowsMeansAllBuy ==
    data # NoData =>
        \A k \in 1..Len(data.slides) :
            LET slide == data.slides[k]
            IN  (/\ slide.type = "RebalanceProposal"
                 /\ "tableData" \in DOMAIN slide
                 /\ slide.tableData # <<>>
                 /\ \A j \in 1..Len(slide.tableData) : "label" \in DOMAIN slide.tableData[j]
                 /\ \A j \in 1..Len(slide.tableData) : ~IsMarkedForSale(slide.tableData[j]))
                => (/\ sellRows(slide) = <<>>
                    /\ nothingToSellShown(slide)
                    /\ buyRows(slide) # <<>>)

\* The document the import works on, when the call ended as r.
ParseResultOf(r) == parsePortfolioDocument(r)

\* The profile hints a parse result carries: under profile, as the prompt
\* lays the document out, or under extractedProfile, as ParseResult does.
CarriedHints(parseResult) ==
    IF "profile" \in DOMAIN parseResult THEN parseResult.profile
    ELSE IF "extractedProfile" \in DOMAIN parseResult THEN parseResult.extractedProfile
    ELSE [absent |-> TRUE]

\* A text without its last character.
WithoutLast(text) == SubSeq(text, 1, Len(text) - 1)

\* C17: when an import reconciles a region hint, a hint that is a canonical
\* region name without its last character becomes that canonical name, for
\* every entry of PREFECTURES, and a hint that neither contains a canonical
\* name nor is contained in one is stored as it is.
C17_RegionHintReconciled ==
    [][\A r \in ParseCallOutcomes :
         LET parseResult == ParseResultOf(r)
         IN  (/\ ParseSettlesWith(r)
              /\ {"extractedProfile", "profile"} \subseteq DOMAIN parseResult
              /\ HasText(parseResult.profile, "region"))
             => LET hint == parseResult.profile.region
                IN  /\ \A k \in 1..Len(PREFECTURES) :
                          hint = WithoutLast(PREFECTURES[k])
                              => profile'.region = PREFECTURES[k]
                    /\ (\A k \in 1..Len(PREFECTURES) :
                            /\ ~IncludesText(hint, PREFECTURES[k])
                            /\ ~IncludesText(PREFECTURES[k], hint))
                       => profile'.region = hint]_vars

\* C18: after an import whose parse result carries profile hints, age,
\* gender, riskTolerance and goals of the profile each equal the hint when
\* the hint is non-empty and keep their value when it is not.
C18_ProfileHintsMerged ==
    [][\A r \in ParseCallOutcomes :
         LET parseResult == ParseResultOf(r)
             hints == CarriedHints(parseResult)
         IN  (ParseSettlesWith(r) /\ parseResult.kind = "object")
             => /\ profile'.age = IF HasNumber(hints, "age") THEN hints.age ELSE profile.age
                /\ profile'.gender =
                      IF HasString(hints, "gender") THEN hints.gender ELSE profile.gender
                /\ profile'.riskTolerance =
                      IF HasString(hints, "riskTolerance") THEN hints.riskTolerance
                      ELSE profile.riskTolerance
                /\ profile'.goals =
                      IF HasString(hints, "goals") THEN hints.goals ELSE profile.goals]_vars

\* C19: an import that yields no asset raises a notice and leaves every
\* profile field and the holdings as they were, whatever hints the parse
\* result carries.
C19_ZeroAssetsLeavesProfile ==
    [][\A r \in ParseCallOutcomes :
         LET parseResult == ParseResultOf(r)
         IN  (/\ ParseSettlesWith(r)
              /\ parseResult.kind = "object"
              /\ extractedAssetsOf(parseResult) = <<>>)
             => /\ Len(notices') = Len(notices) + 1
                /\ profile' = profile
                /\ currentHoldings' = currentHoldings]_vars

\* The ways the rewrite call fails: it throws, or it returns no text.
FailedRewrites == {r \in RewriteOutcomes : r.st = "thrown" \/ Falsy(r.text)}

\* C20: when the rewrite call fails or returns empty text, aiTextEdit
\* returns the text it was given, and after handleChatSubmit the document
\* equals the document before it and isProcessing is false.
C20_FailedRewriteIsNoOp ==
    [][\A r \in FailedRewrites :
         RewriteSettlesWith(r)
         => /\ \A text \in {"", "Sell A, buy B"} : aiTextEdit(text, r) = text
            /\ data' = data
            /\ isProcessing' = FALSE]_vars

\* A text that is a number in its entirety: an optional sign, then digits
\* and nothing else.
IsWholeNumber(text) ==
    LET signed == text # <<>> /\ Head(text) \in {CharMinus, CharPlus}
        rest == IF signed THEN Tail(text) ELSE text
    IN  rest # <<>> /\ \A k \in 1..Len(rest) : IsDigit(rest[k])

\* C27: when a text is typed into an amount field, of a holdings row
\* (handleAmountChange) or of a proposed-assets row (updateProposedAmount),
\* that after digit normalization and separator stripping is not a number in
\* its entirety and is neither empty nor a bare minus sign, both ledgers stay
\* as they were.
C27_UnparseableEntryIgnored ==
    [][(/\ amountInput'.n # amountInput.n
        /\ ~IsWholeNumber(Normalize(amountInput'.text))
        /\ Normalize(amountInput'.text) \notin {<<>>, <<CharMinus>>})
         => (proposedAssets' = proposedAssets /\ currentHoldings' = currentHoldings)]_vars

\* The settings s with the key of one type absent from proposalCounts.
WithoutCountKey(s, type) ==
    [s EXCEPT !.proposalCounts = [t \in (DOMAIN @) \ {type} |-> @[t]],
              !.proposalCountKeys = Without(@, type)]

\* C23: in every reachable settings state the request list of
\* getAssetRecommendations holds exactly the types whose count is above 0,
\* each once, with its count and its selected sub-categories, in the order
\* Stock, Mutual Fund, Bond, Insurance, ETF; and for a type whose count is 0
\* the list is the one of the same settings without the key of that type.
C23_RequestsListRequestedTypesInOrder ==
    LET requests == requestsOf(settings)
        Requested(type) == settings.proposalCounts[type] > 0
        expected == Filter(InitialCountKeys, Requested)
    IN  /\ [k \in 1..Len(requests) |-> requests[k].type] = expected
        /\ \A k \in 1..Len(requests) :
              /\ requests[k].count = settings.proposalCounts[requests[k].type]
              /\ requests[k].details = settings.proposalDetails[requests[k].type]
        /\ \A type \in ProposalTypes :
              settings.proposalCounts[type] = 0
                  => requestsOf(WithoutCountKey(settings, type)) = requests

\* Stock was switched off and on again, Bond is requested with a
\* sub-category, and three types are not requested.
C23_Witness ==
    /\ settings.proposalCounts["Stock"] = 1
    /\ settings.proposalCounts["Bond"] > 0
    /\ settings.proposalDetails["Bond"] # <<>>
    /\ Len(requestsOf(settings)) = 2

\* C24: every entry appended to the proposed-assets ledger, from a listed AI
\* candidate (addToProposal) or from the manual search (selectManualAsset),
\* has an id minted by the step itself, a confidence of 1.0 unless the
\* candidate supplied its own, and the default amount.
C24_ProposedEntryContract ==
    [][Len(proposedAssets') = Len(proposedAssets) + 1 =>
          LET e == proposedAssets'[Len(proposedAssets')]
          IN  /\ e.id.prefix \in {"prop", "manual"}
              /\ "confidence" \in DOMAIN e
              /\ \/ e.confidence = FullConfidence
                 \/ \E k \in 1..Len(recommendations) :
                       /\ "confidence" \in DOMAIN recommendations[k]
                       /\ recommendations[k].confidence = e.confidence
              /\ e.amount = DefaultAmount]_vars

\* C25: for every RebalanceProposal slide of the document shown whose two
\* sides can be computed, the sell side lists exactly the rows whose label
\* carries the sell marker or whose value1 is negative and the buy side
\* lists exactly the other rows, so that every row is on one side and on
\* one side only.
C25_SellBuyPartition ==
    data # NoData =>
        \A k \in 1..Len(data.slides) :
            LET slide == data.slides[k]
                sides == rebalanceSides(slide)
                IsOtherRow(r) == ~IsMarkedForSale(r)
            IN  (/\ slide.type = "RebalanceProposal"
                 /\ "tableData" \in DOMAIN slide
                 /\ sides.kind = "returned")
                => (/\ sides.value.sell = Filter(slide.tableData, IsMarkedForSale)
                    /\ sides.value.buy = Filter(slide.tableData, IsOtherRow))

\* C26: computing the derived shape of the slide on display (the two sides
\* of a RebalanceProposal slide, the cells of a ScenarioAnalysis chart)
\* raises no error, for every document that follows the response schema.
C26_ShapingNeverThrows ==
    (data # NoData /\ currentSlideIndex < Len(data.slides))
        => renderContent(data.slides[currentSlideIndex + 1]).kind = "returned"

\* A handleRebalanceComplete invocation leaves its await in this step.
ReportCallCompletes == Len(reportCalls') < Len(reportCalls)

\* C22: when the report call completes after the user went back from the
\* rebalance step to the input step, its result is discarded: the
\* completion does not switch the wizard to the editor.
C22_ResultDiscardedAfterNavigation ==
    [][(ReportCallCompletes /\ step = "input") => step' = "input"]_vars

\* C28: whenever the wizard is at the editor step, profile, settings and
\* presentationData are all non-null, the document has slides and
\* currentSlideIndex indexes one of them.
C28_EditorStepHasItsData ==
    step = "editor" =>
        /\ appProfile # NoData
        /\ appSettings # NoData
        /\ data # NoData
        /\ "slides" \in DOMAIN data
        /\ currentSlideIndex >= 0
        /\ currentSlideIndex < Len(data.slides)

\* C29: at most one handleRebalanceComplete invocation is in flight, and
\* only while isGenerating; no invocation starts while isGenerating, whatever
\* the navigation; none was started with an empty list of proposed assets;
\* and the completion of an invocation leaves isGenerating false.
C29_OneReportCallAtATime ==
    /\ [](/\ Len(reportCalls) <= 1
          /\ isGenerating <=> (reportCalls # <<>>)
          /\ \A k \in 1..Len(reportCalls) : reportCalls[k].assets # <<>>)
    /\ [][isGenerating => Len(reportCalls') <= Len(reportCalls)]_vars
    /\ [][ReportCallCompletes => ~isGenerating']_vars

\* A report call is in flight, the user is at the rebalance step with a
\* ledger that is not empty and differs from the list submitted: only
\* isGenerating holds the generate button back.
C29_Witness ==
    /\ isGenerating
    /\ Len(reportCalls) = 1
    /\ RebalanceSectionShown
    /\ proposedAssets # <<>>
    /\ proposedAssets # reportCalls[1].assets

\* C30: when the user goes back from the editor to the rebalance step, the
\* proposed-assets ledger of the rebalance step is the list submitted for
\* the report on display.
C30_LedgerSurvivesNavigation ==
    [][(step = "editor" /\ step' = "rebalance") => proposedAssets' = appProposedAssets]_vars

\* The ids of the slides of a document, in their order.
SlideIds(document) == [k \in 1..Len(document.slides) |-> document.slides[k].id]

\* slide with its bodyText left out.
WithoutBodyText(slide) == [k \in (DOMAIN slide) \ {"bodyText"} |-> slide[k]]

=============================================================================
